---- MODULE Spec2Model ----
(***************************************************************************)
(* A model of the GraphQL client of packages/graphql-client:               *)
(* createGraphQLClient and its three entry points fetch, request and       *)
(* requestStream (graphql-client.ts), on top of the retrying HTTP executor *)
(* generateHttpFetch (http-fetch.ts) and the helpers of utilities.ts and   *)
(* constants.ts.                                                           *)
(*                                                                         *)
(* One client is constructed and serves one call.  A call runs from its    *)
(* entry point to its result through the suspension points of the code:    *)
(* each await of the transport and each await of the retry sleep.          *)
(***************************************************************************)
EXTENDS Integers, Sequences, FiniteSets, TLC

(***************************************************************************)
(* Bounds of the model.                                                    *)
(***************************************************************************)
\* How far outside [MIN_RETRIES, MAX_RETRIES] the tried "retries" values go.
MaxOver == 1

(***************************************************************************)
(* constants.ts                                                            *)
(***************************************************************************)
CLIENT == "GraphQL Client"

MIN_RETRIES == 0

MAX_RETRIES == 3

RETRY_WAIT_TIME == 1000

RETRIABLE_STATUS_CODES == {429, 503}

GQL_API_ERROR ==
    <<"An error occurred while fetching from the API. Review 'graphQLErrors' for details.">>

UNEXPECTED_CONTENT_TYPE_ERROR == "Response returned unexpected Content-Type:"

NO_DATA_OR_ERRORS_ERROR ==
    <<"An unknown error has occurred. The API did not return a data object or any errors in its response.">>

CONTENT_TYPES == [json |-> "application/json", multipart |-> "multipart/mixed"]

(***************************************************************************)
(* Values.  A text is a sequence of string pieces, so that prefixes        *)
(* (startsWith) and concatenation are computed, not assumed.  An optional  *)
(* value (undefined or a value) is a record with a presence flag.          *)
(***************************************************************************)
None == [has |-> FALSE, val |-> 0]

Some(v) == [has |-> TRUE, val |-> v]

NoText == [has |-> FALSE, val |-> ""]

SomeText(s) == [has |-> TRUE, val |-> s]

\* a ?? b of the code: a unless a is undefined.
Coalesce(a, b) == IF a.has THEN a.val ELSE b

\* String.prototype.startsWith for a text and a one-piece prefix.
StartsWith(text, piece) == Len(text) > 0 /\ text[1] = piece


(***************************************************************************)
(* utilities.ts                                                            *)
(***************************************************************************)
formatErrorMessage(message) ==
    IF StartsWith(message, CLIENT) THEN message ELSE <<CLIENT, ": ">> \o message

RetriesInvalidMessage(retries) ==
    <<CLIENT, ": ", "The provided \"retries\" value (", ToString(retries),
      ") is invalid - it cannot be less than ", ToString(MIN_RETRIES),
      " or greater than ", ToString(MAX_RETRIES)>>

\* validateRetries({client, retries}) returns normally: retries is undefined
\* or a number of [MIN_RETRIES, MAX_RETRIES].
RetriesValid(retries) ==
    ~retries.has \/ (retries.val >= MIN_RETRIES /\ retries.val <= MAX_RETRIES)

(***************************************************************************)
(* Operations: the text of a GraphQL operation, as a sequence of pieces.   *)
(* "x" is a run of word characters, " " a run of white space, "{" a run of *)
(* other characters; "defer" and "DEFER" are that word in two cases.       *)
(***************************************************************************)
IsWordPiece(p) == p \in {"x", "defer", "DEFER"}

LowerCase(p) == IF p = "DEFER" THEN "defer" ELSE p

\* DEFER_OPERATION_REGEX.test(operation), the regex being /@\s*defer\b/i.
DeferTest(operation) ==
    \E i \in 1..Len(operation) :
        /\ operation[i] = "@"
        /\ \E j \in (i + 1)..Len(operation) :
              /\ \A k \in (i + 1)..(j - 1) : operation[k] = " "
              /\ LowerCase(operation[j]) = "defer"
              /\ (j = Len(operation) \/ ~IsWordPiece(operation[j + 1]))

Operations ==
    { <<"x", " ", "{", "x", "}">>,
      <<"x", "{", "@", " ", "DEFER", "{", "x">>,
      <<"{", "@", "defer", "x", "}">> }

(***************************************************************************)
(* Headers (types.ts): a header value is a string or a list of strings.    *)
(***************************************************************************)
Str(s) == [list |-> FALSE, items |-> <<s>>]

List(items) == [list |-> TRUE, items |-> items]

RECURSIVE Join(_, _)
\* Array.prototype.join(separator), as a text.
Join(items, separator) ==
    IF Len(items) = 0 THEN <<>>
    ELSE IF Len(items) = 1 THEN <<items[1]>>
    ELSE <<items[1], separator>> \o Join(Tail(items), separator)

NoHeaders == [has |-> FALSE, val |-> <<>>]

\* { ...headers, ...overrideHeaders }: the keys of both, the override's value
\* where both have the key.
SpreadHeaders(headers, overrideHeaders) ==
    IF ~overrideHeaders.has THEN headers
    ELSE [n \in (DOMAIN headers) \cup (DOMAIN overrideHeaders.val) |->
             IF n \in DOMAIN overrideHeaders.val
             THEN overrideHeaders.val[n] ELSE headers[n]]

\* Array.isArray(value) ? value.join(", ") : value.toString()
FlatHeaderValue(value) ==
    IF value.list THEN Join(value.items, ", ") ELSE <<value.items[1]>>

FlatHeaders(headers, overrideHeaders) ==
    LET merged == SpreadHeaders(headers, overrideHeaders)
    IN  [n \in DOMAIN merged |-> FlatHeaderValue(merged[n])]

(***************************************************************************)
(* The inputs of the model: what a client is constructed with, what a call *)
(* is given, and what the transport answers.                               *)
(***************************************************************************)
RetriesInputs ==
    {None} \cup {Some(n) : n \in (MIN_RETRIES - MaxOver)..(MAX_RETRIES + MaxOver)}

DefaultUrl == "https://shop/api/graphql.json"

DefaultHeaders ==
    ("Content-Type" :> Str("application/json")) @@
    ("X-Token" :> List(<<"t1", "t2">>))

\* A client with a logger and any retries, or without a logger.
ClientOptionsInputs ==
    [url : {DefaultUrl}, headers : {DefaultHeaders},
     retries : RetriesInputs, logger : {TRUE}] \cup
    [url : {DefaultUrl}, headers : {DefaultHeaders},
     retries : {Some(1)}, logger : {FALSE}]

OverrideHeaders ==
    [has |-> TRUE,
     val |-> ("X-Token" :> Str("t9")) @@ ("Accept" :> List(<<"a", "b">>))]

OverrideUrl == SomeText("https://other/graphql.json")

\* No option but retries, variables and a url, or headers; with any retries.
RequestOptionsInputs ==
    [variables : {NoText}, url : {NoText}, headers : {NoHeaders},
     retries : RetriesInputs] \cup
    [variables : {SomeText("vars")}, url : {OverrideUrl}, headers : {NoHeaders},
     retries : RetriesInputs] \cup
    [variables : {NoText}, url : {NoText}, headers : {OverrideHeaders},
     retries : RetriesInputs]

\* The body of a JSON response, as response.json() reads it: not JSON at all,
\* or an object with some of the fields data, errors and extensions. A field
\* is absent ("undefined"), or data is null, an object without keys ("{}") or
\* an object with keys.
Payload(valid, data, errors, extensions) ==
    [valid |-> valid, data |-> data, errors |-> errors, extensions |-> extensions]

EmptyPayload == Payload(TRUE, "undefined", "undefined", "undefined")

JsonPayloads ==
    {Payload(FALSE, "undefined", "undefined", "undefined")} \cup
    {Payload(TRUE, d, e, x) : d \in {"undefined", "null", "{}", "data"},
                              e \in {"undefined", "errors"},
                              x \in {"undefined", "extensions"}} \cup
    {Payload(TRUE, "data", "undefined", "{}")}

StatusText(status) ==
    CASE status = 200 -> "OK"
      [] status = 400 -> "Bad request"
      [] status = 429 -> "Too Many Requests"
      [] status = 500 -> "Internal Server Error"
      [] status = 503 -> "Service Unavailable"
      [] OTHER -> ""

\* A Response of the Fetch API: ok is status in 200..299; contentType is what
\* headers.get("content-type") returns; body is the shape of response.body.
MakeResponse(status, contentType, body, payload) ==
    [status |-> status, statusText |-> StatusText(status),
     ok |-> (status >= 200 /\ status <= 299),
     contentType |-> contentType, body |-> body, payload |-> payload]

\* headers.get("content-type"): null, or the header's text.
NoContentType == [has |-> FALSE, val |-> <<>>]

NoResponse == MakeResponse(0, NoContentType, "none", EmptyPayload)

JsonType == [has |-> TRUE, val |-> <<"application/json", "; charset=utf-8">>]

MultipartType ==
    [has |-> TRUE, val |-> <<"multipart/mixed", "; ", "boundary=", "graphql">>]

HtmlType == [has |-> TRUE, val |-> <<"text/html">>]

RetriableResponses ==
    {MakeResponse(s, JsonType, "reader", EmptyPayload) : s \in RETRIABLE_STATUS_CODES}

TerminalResponses ==
    {MakeResponse(200, JsonType, "reader", p) : p \in JsonPayloads} \cup
    {MakeResponse(200, MultipartType, b, EmptyPayload) : b \in {"reader", "iterable", "none"}} \cup
    {MakeResponse(200, t, "reader", EmptyPayload) : t \in {HtmlType, NoContentType}} \cup
    {MakeResponse(500, HtmlType, "reader", EmptyPayload),
     MakeResponse(400, JsonType, "reader",
                  Payload(FALSE, "undefined", "undefined", "undefined"))}

\* What one call of the transport ends with: it throws (an abort, a network
\* error) or it returns a response.
Threw(message) == [threw |-> TRUE, message |-> message, response |-> NoResponse]

Returned(response) == [threw |-> FALSE, message |-> <<>>, response |-> response]

AbortMessage == <<"The operation was aborted.">>

TransportOutcomes ==
    {Threw(AbortMessage)} \cup {Returned(r) : r \in RetriableResponses \cup TerminalResponses}

(***************************************************************************)
(* The state.                                                              *)
(***************************************************************************)
VARIABLES
    pc,            \* where the client and its call are
    clientOptions, \* what createGraphQLClient is given
    config,        \* the client's config, once constructed
    call,          \* the call made: entry point, operation, options
    frame,         \* the executor's current invocation: requestParams, count, maxRetries
    fetchCalls,    \* the requestParams of every transport call, in order
    settled,       \* what every transport call ended with, in order
    logged,        \* the events the caller's logger received, in order
    timers,        \* the delay of every timer registered, in order
    hist,          \* the order of the transport calls and sleeps of the call
    result,        \* what the entry point's promise settled with
    iter,          \* the state of the iterator requestStream() resolved with
    snapshots,     \* what the iterator yielded, in order
    streamBody,    \* the chunks the body of a multipart response delivers
    chunksRead,    \* how many of them the body iterator has delivered
    buffer,        \* readStreamChunk's buffer
    batches,       \* the chunkBodies readStreamChunk has yielded, in order
    combinedData,  \* the stream's combined data
    responseExtensions, \* the stream's extensions
    streamHasNext, \* the hasNext of the last payload processed
    reader,        \* the reader of the body: not acquired, acquired, cancelled
    lift,          \* the payload data last lifted to its path, and the merges made
    streams        \* the streams of several requestStream() calls, by call

clientVars ==
    <<pc, clientOptions, config, call, frame, fetchCalls, settled, logged,
      timers, hist, result>>

\* What readStreamChunk and the iterator keep of the body and its parts.
parserVars ==
    <<streamBody, chunksRead, buffer, batches, combinedData, responseExtensions,
      streamHasNext>>

streamVars == <<parserVars, reader, lift, streams>>

vars == <<clientVars, iter, snapshots, streamVars>>

NoConfig == [url |-> "", headers |-> <<>>, retries |-> 0]

NoCall ==
    [entry |-> "none", operation |-> <<>>,
     options |-> [variables |-> NoText, url |-> NoText, headers |-> NoHeaders,
                  retries |-> None]]

NoRequestParams == [url |-> "", method |-> "", headers |-> <<>>, body |-> <<>>]

NoFrame == [requestParams |-> NoRequestParams, count |-> 0, maxRetries |-> 0]

(***************************************************************************)
(* Results: the errors block of a response object, the response object of  *)
(* request(), a snapshot of a stream.                                      *)
(***************************************************************************)
NoErrors ==
    [present |-> FALSE, networkStatusCode |-> None, message |-> <<>>,
     graphQLErrors |-> "undefined", response |-> NoResponse]

Errors(networkStatusCode, message, graphQLErrors, response) ==
    [present |-> TRUE, networkStatusCode |-> networkStatusCode, message |-> message,
     graphQLErrors |-> graphQLErrors, response |-> response]

ClientResponse(data, extensions, errors) ==
    [data |-> data, extensions |-> extensions, errors |-> errors]

NoClientResponse == ClientResponse("undefined", "undefined", NoErrors)

Snapshot(clientResponse, hasNext) ==
    [data |-> clientResponse.data, extensions |-> clientResponse.extensions,
     errors |-> clientResponse.errors, hasNext |-> hasNext]

\* The iterator requestStream() resolves with: the catch block's (one error
\* snapshot), the JSON branch's (one processed response) or the multipart one.
Iterator(kind, errors, response) ==
    [kind |-> kind, errors |-> errors, response |-> response]

NoIterator == Iterator("none", NoErrors, NoResponse)

Pending ==
    [kind |-> "pending", message |-> <<>>, response |-> NoResponse,
     value |-> NoClientResponse, iterator |-> NoIterator]

\* A promise rejected with an Error of this message.
Rejected(message) == [Pending EXCEPT !.kind = "rejected", !.message = message]

\* fetch() resolved with a response.
ResolvedResponse(response) ==
    [Pending EXCEPT !.kind = "resolved", !.response = response]

\* request() resolved with a response object.
ResolvedValue(value) == [Pending EXCEPT !.kind = "resolved", !.value = value]

\* requestStream() resolved with an iterator.
ResolvedIterator(iterator) ==
    [Pending EXCEPT !.kind = "resolved", !.iterator = iterator]

(***************************************************************************)
(* generateClientLogger (graphql-client.ts): the executor's events reach   *)
(* the caller's logger when there is one.                                  *)
(***************************************************************************)
RetryLog(requestParams, lastResponse, retryAttempt, maxRetries) ==
    [type |-> "HTTP-Retry", requestParams |-> requestParams,
     response |-> lastResponse, retryAttempt |-> retryAttempt,
     maxRetries |-> maxRetries]

ResponseLog(requestParams, response) ==
    [type |-> "HTTP-Response", requestParams |-> requestParams,
     response |-> response, retryAttempt |-> 0, maxRetries |-> 0]

\* Mutant: the test for a logger is inverted.
ClientLoggerInverted(logger, sink, events) == IF ~logger THEN sink \o events ELSE sink

\* Mutant: only the retry events reach the logger.
ClientLoggerRetriesOnly(logger, sink, events) ==
    IF logger
    THEN sink \o SelectSeq(events, LAMBDA e : e.type = "HTTP-Retry")
    ELSE sink

\* clientLogger(logContent), for each of the events, on the logger's record.
ClientLogger(logger, sink, events) == IF logger THEN sink \o events ELSE sink

(***************************************************************************)
(* generateHttpFetch (http-fetch.ts): one invocation of                    *)
(* httpFetch(requestParams, count, maxRetries), from the transport's       *)
(* outcome on.                                                             *)
(***************************************************************************)
\* Mutant: every response that is not ok is retried.
RetriableAnyFailure(outcome) == outcome.threw \/ ~outcome.response.ok

\* The outcome is one the executor retries: a throw, or a response whose
\* status is a retriable one.
Retriable(outcome) ==
    outcome.threw \/ outcome.response.status \in RETRIABLE_STATUS_CODES

\* The budget allows another attempt after attempt `count`.
WithinBudget(count, maxRetries) == count <= maxRetries

\* Mutant: the retries wording is used whatever maxRetries is.
ExhaustedMessageAlways(maxRetries, message) ==
    formatErrorMessage(
        <<"Attempted maximum number of ", ToString(maxRetries),
          " network retries. Last message - ">> \o message)

\* The message httpFetch fails with when the last attempt threw.
ExhaustedMessage(maxRetries, message) ==
    formatErrorMessage(
        (IF maxRetries > 0
         THEN <<"Attempted maximum number of ", ToString(maxRetries),
                " network retries. Last message - ">>
         ELSE <<>>) \o message)

\* Mutant: the sleep grows with the attempt.
HttpFetchStepGrowingWait(requestParams, count, maxRetries, outcome) ==
    IF Retriable(outcome) /\ WithinBudget(count, maxRetries)
    THEN [next |-> "retry",
          events |-> <<RetryLog(requestParams, outcome.response, count, maxRetries)>>,
          wait |-> RETRY_WAIT_TIME * count,
          settles |-> Pending]
    ELSE IF outcome.threw
    THEN [next |-> "throw", events |-> <<>>, wait |-> 0,
          settles |-> Rejected(ExhaustedMessage(maxRetries, outcome.message))]
    ELSE [next |-> "return",
          events |-> <<ResponseLog(requestParams, outcome.response)>>,
          wait |-> 0,
          settles |-> ResolvedResponse(outcome.response)]

\* What the invocation does with the outcome: another attempt after a retry
\* event and a sleep, a failure, or the response returned after a response
\* event.
HttpFetchStep(requestParams, count, maxRetries, outcome) ==
    IF Retriable(outcome) /\ WithinBudget(count, maxRetries)
    THEN [next |-> "retry",
          events |-> <<RetryLog(requestParams, outcome.response, count, maxRetries)>>,
          wait |-> RETRY_WAIT_TIME,
          settles |-> Pending]
    ELSE IF outcome.threw
    THEN [next |-> "throw", events |-> <<>>, wait |-> 0,
          settles |-> Rejected(ExhaustedMessage(maxRetries, outcome.message))]
    ELSE [next |-> "return",
          events |-> <<ResponseLog(requestParams, outcome.response)>>,
          wait |-> 0,
          settles |-> ResolvedResponse(outcome.response)]

(***************************************************************************)
(* generateFetch (graphql-client.ts)                                       *)
(***************************************************************************)
\* JSON.stringify({query: operation, variables}): an undefined variables is
\* left out.
RequestBody(operation, variables) ==
    <<[key |-> "query", val |-> operation]>> \o
    (IF variables.has THEN <<[key |-> "variables", val |-> <<variables.val>>]>> ELSE <<>>)

FetchParams(cfg, operation, options) ==
    [url |-> Coalesce(options.url, cfg.url),
     method |-> "POST",
     headers |-> FlatHeaders(cfg.headers, options.headers),
     body |-> RequestBody(operation, options.variables)]

\* Mutant: the client's retries is validated, not the call's.
FetchValidatesDefault(cfg, options) == RetriesValid(Some(cfg.retries))

\* validateRetries({client: CLIENT, retries: overrideRetries}) returns normally.
FetchValidates(cfg, options) == RetriesValid(options.retries)

\* Mutant: the budget is passed as a number of tries.
HttpFetchArgsAsTries(cfg, options, fetchParams) ==
    [requestParams |-> fetchParams, count |-> 1,
     maxRetries |-> Coalesce(options.retries, cfg.retries) + 1]

\* Mutant: the attempts are counted from 0.
HttpFetchArgsFromZero(cfg, options, fetchParams) ==
    [requestParams |-> fetchParams, count |-> 0,
     maxRetries |-> Coalesce(options.retries, cfg.retries)]

\* Mutant: overrideRetries || retries, so that a retries of 0 is not taken.
HttpFetchArgsOrDefault(cfg, options, fetchParams) ==
    [requestParams |-> fetchParams, count |-> 1,
     maxRetries |-> IF options.retries.has /\ options.retries.val # 0
                    THEN options.retries.val ELSE cfg.retries]

\* httpFetch(fetchParams, 1, overrideRetries ?? retries)
HttpFetchArgs(cfg, options, fetchParams) ==
    [requestParams |-> fetchParams, count |-> 1,
     maxRetries |-> Coalesce(options.retries, cfg.retries)]

(***************************************************************************)
(* processJSONResponse, generateRequest and generateRequestStream          *)
(* (graphql-client.ts), from the settlement of fetch() on.                 *)
(***************************************************************************)
\* String.prototype.includes, for a text and a one-piece search string.
Includes(text, piece) == \E i \in 1..Len(text) : text[i] = piece

\* getKeyValueIfValid(key, value) (utilities.ts): the value is kept unless it
\* is falsy or an object without keys.
KeyValueIfValid(value) ==
    IF value \in {"undefined", "null", "{}"} THEN "undefined" ELSE value

Truthy(value) == value \notin {"undefined", "null"}

\* response.headers.get("content-type") || ""
ContentTypeOf(response) ==
    IF response.contentType.has THEN response.contentType.val ELSE <<>>

\* processJSONResponse, were it to return data only without an errors block.
ProcessedJsonDataOrErrors(response) ==
    LET p == response.payload
        failed == Truthy(p.errors) \/ ~Truthy(p.data)
    IN  ClientResponse(
            IF failed THEN "undefined" ELSE KeyValueIfValid(p.data),
            KeyValueIfValid(p.extensions),
            IF failed
            THEN Errors(Some(response.status),
                        formatErrorMessage(IF Truthy(p.errors) THEN GQL_API_ERROR
                                           ELSE NO_DATA_OR_ERRORS_ERROR),
                        KeyValueIfValid(p.errors),
                        response)
            ELSE NoErrors)

\* The object processJSONResponse resolves with, for a body that is JSON.
ProcessedJson(response) ==
    LET p == response.payload
    IN  ClientResponse(
            KeyValueIfValid(p.data),
            KeyValueIfValid(p.extensions),
            IF Truthy(p.errors) \/ ~Truthy(p.data)
            THEN Errors(Some(response.status),
                        formatErrorMessage(IF Truthy(p.errors) THEN GQL_API_ERROR
                                           ELSE NO_DATA_OR_ERRORS_ERROR),
                        KeyValueIfValid(p.errors),
                        response)
            ELSE NoErrors)

\* What response.json() fails with on a body that is not JSON.
JsonSyntaxError == <<"Unexpected token < in JSON at position 0">>

DeferGuardRequestMessage ==
    formatErrorMessage(
        <<"This operation will result in a streamable response - use requestStream() instead.">>)

DeferGuardStreamMessage ==
    formatErrorMessage(
        <<"This operation does not result in a streamable response - use request() instead.">>)

\* Mutant: the content type is looked at before response.ok, and a JSON
\* response that is not ok is processed as a JSON response.
RequestSettledTypeFirst(fetched) ==
    IF fetched.kind = "rejected"
    THEN ResolvedValue(ClientResponse("undefined", "undefined",
             Errors(None, fetched.message, "undefined", NoResponse)))
    ELSE LET response == fetched.response
             contentType == ContentTypeOf(response)
         IN  IF ~Includes(contentType, CONTENT_TYPES.json)
             THEN ResolvedValue(ClientResponse("undefined", "undefined",
                      Errors(Some(response.status),
                             formatErrorMessage(
                                 <<UNEXPECTED_CONTENT_TYPE_ERROR, " ">> \o contentType),
                             "undefined", response)))
             ELSE IF ~response.payload.valid
             THEN Rejected(JsonSyntaxError)
             ELSE ResolvedValue(ProcessedJson(response))

\* request(), were it to accept every content type of CONTENT_TYPES, as
\* requestStream() does.
RequestSettledAnyType(fetched) ==
    IF fetched.kind = "rejected"
    THEN ResolvedValue(ClientResponse("undefined", "undefined",
             Errors(None, fetched.message, "undefined", NoResponse)))
    ELSE LET response == fetched.response
             contentType == ContentTypeOf(response)
         IN  IF ~response.ok
             THEN ResolvedValue(ClientResponse("undefined", "undefined",
                      Errors(Some(response.status),
                             formatErrorMessage(<<response.statusText>>),
                             "undefined", response)))
             ELSE IF /\ ~Includes(contentType, CONTENT_TYPES.json)
                     /\ ~Includes(contentType, CONTENT_TYPES.multipart)
             THEN ResolvedValue(ClientResponse("undefined", "undefined",
                      Errors(Some(response.status),
                             formatErrorMessage(
                                 <<UNEXPECTED_CONTENT_TYPE_ERROR, " ">> \o contentType),
                             "undefined", response)))
             ELSE IF ~response.payload.valid
             THEN Rejected(JsonSyntaxError)
             ELSE ResolvedValue(ProcessedJson(response))

\* request(), were it without its catch block: a rejection of fetch() is
\* the rejection of request().
RequestSettledRethrows(fetched) ==
    IF fetched.kind = "rejected"
    THEN Rejected(fetched.message)
    ELSE LET response == fetched.response
             contentType == ContentTypeOf(response)
         IN  IF ~response.ok
             THEN ResolvedValue(ClientResponse("undefined", "undefined",
                      Errors(Some(response.status),
                             formatErrorMessage(<<response.statusText>>),
                             "undefined", response)))
             ELSE IF ~Includes(contentType, CONTENT_TYPES.json)
             THEN ResolvedValue(ClientResponse("undefined", "undefined",
                      Errors(Some(response.status),
                             formatErrorMessage(
                                 <<UNEXPECTED_CONTENT_TYPE_ERROR, " ">> \o contentType),
                             "undefined", response)))
             ELSE IF ~response.payload.valid
             THEN Rejected(JsonSyntaxError)
             ELSE ResolvedValue(ProcessedJson(response))

\* request(), after its guard: what it settles with, given what fetch()
\* settled with.
RequestSettled(fetched) ==
    IF fetched.kind = "rejected"
    THEN ResolvedValue(ClientResponse("undefined", "undefined",
             Errors(None, fetched.message, "undefined", NoResponse)))
    ELSE LET response == fetched.response
             contentType == ContentTypeOf(response)
         IN  IF ~response.ok
             THEN ResolvedValue(ClientResponse("undefined", "undefined",
                      Errors(Some(response.status),
                             formatErrorMessage(<<response.statusText>>),
                             "undefined", response)))
             ELSE IF ~Includes(contentType, CONTENT_TYPES.json)
             THEN ResolvedValue(ClientResponse("undefined", "undefined",
                      Errors(Some(response.status),
                             formatErrorMessage(
                                 <<UNEXPECTED_CONTENT_TYPE_ERROR, " ">> \o contentType),
                             "undefined", response)))
             ELSE IF ~response.payload.valid
             THEN Rejected(JsonSyntaxError)
             ELSE ResolvedValue(ProcessedJson(response))

\* The iterator of requestStream()'s catch block: one snapshot with the
\* error's message and, when the error's cause is a response, its status.
ErrorIterator(message, cause) ==
    Iterator("error",
             Errors(IF cause.status # 0 THEN Some(cause.status) ELSE None,
                    formatErrorMessage(message), "undefined", NoResponse),
             NoResponse)

\* requestStream(), were its catch block not to cover the call of fetch(): a
\* rejection of fetch() is the rejection of requestStream().
RequestStreamSettledRethrows(fetched) ==
    IF fetched.kind = "rejected"
    THEN Rejected(fetched.message)
    ELSE LET response == fetched.response
             responseContentType == ContentTypeOf(response)
         IN  IF ~response.ok
             THEN ResolvedIterator(ErrorIterator(<<response.statusText>>, response))
             ELSE IF /\ ~Includes(responseContentType, CONTENT_TYPES.json)
                     /\ ~Includes(responseContentType, CONTENT_TYPES.multipart)
             THEN ResolvedIterator(ErrorIterator(
                      <<UNEXPECTED_CONTENT_TYPE_ERROR, " ">> \o responseContentType,
                      response))
             ELSE IF Includes(responseContentType, CONTENT_TYPES.json)
             THEN ResolvedIterator(Iterator("json", NoErrors, response))
             ELSE IF response.body = "none"
             THEN ResolvedIterator(ErrorIterator(
                      <<"API multipart response did not return an iterable body">>,
                      response))
             ELSE ResolvedIterator(Iterator("multipart", NoErrors, response))

\* requestStream(), after its guard: what it settles with, given what fetch()
\* settled with.
RequestStreamSettled(fetched) ==
    IF fetched.kind = "rejected"
    THEN ResolvedIterator(ErrorIterator(fetched.message, NoResponse))
    ELSE LET response == fetched.response
             responseContentType == ContentTypeOf(response)
         IN  IF ~response.ok
             THEN ResolvedIterator(ErrorIterator(<<response.statusText>>, response))
             ELSE IF /\ ~Includes(responseContentType, CONTENT_TYPES.json)
                     /\ ~Includes(responseContentType, CONTENT_TYPES.multipart)
             THEN ResolvedIterator(ErrorIterator(
                      <<UNEXPECTED_CONTENT_TYPE_ERROR, " ">> \o responseContentType,
                      response))
             ELSE IF Includes(responseContentType, CONTENT_TYPES.json)
             THEN ResolvedIterator(Iterator("json", NoErrors, response))
             ELSE IF response.body = "none"
             THEN ResolvedIterator(ErrorIterator(
                      <<"API multipart response did not return an iterable body">>,
                      response))
             ELSE ResolvedIterator(Iterator("multipart", NoErrors, response))

\* What the entry point settles with once fetch() has settled.
EntrySettled(entry, fetched) ==
    CASE entry = "fetch" -> fetched
      [] entry = "request" -> RequestSettled(fetched)
      [] entry = "requestStream" -> RequestStreamSettled(fetched)

\* No multipart stream is being read: the stream's variables as
\* generateRequestStream and readStreamChunk declare them.
\* No payload data lifted yet, and no merge made.
NoLift == [pending |-> FALSE, path |-> <<>>, data |-> <<>>, object |-> <<>>, merges |-> 0]

\* No further requestStream() call.
NoStreams == <<>>

NoStream ==
    /\ streamBody = <<>>
    /\ chunksRead = 0
    /\ buffer = <<>>
    /\ batches = <<>>
    /\ combinedData = <<>>
    /\ responseExtensions = "undefined"
    /\ streamHasNext = TRUE
    /\ reader = "none"
    /\ lift = NoLift
    /\ streams = NoStreams

(***************************************************************************)
(* Initial state: a client about to be constructed with some options.      *)
(***************************************************************************)
Init ==
    /\ pc = "new"
    /\ clientOptions \in ClientOptionsInputs
    /\ config = NoConfig
    /\ call = NoCall
    /\ frame = NoFrame
    /\ fetchCalls = <<>>
    /\ settled = <<>>
    /\ logged = <<>>
    /\ timers = <<>>
    /\ hist = <<>>
    /\ result = Pending
    /\ iter = "none"
    /\ snapshots = <<>>
    /\ NoStream

\* The iterator's state when the entry point settles with `settles`.
IteratorState(settles) == IF settles.iterator.kind = "none" THEN "none" ELSE "ready"

(***************************************************************************)
(* createGraphQLClient: validates retries (default 0), then builds the     *)
(* config and the entry points.                                            *)
(***************************************************************************)
CreateGraphQLClient ==
    /\ pc = "new"
    /\ IF RetriesValid(clientOptions.retries)
       THEN /\ config' = [url |-> clientOptions.url,
                          headers |-> clientOptions.headers,
                          retries |-> Coalesce(clientOptions.retries, 0)]
            /\ pc' = "ready"
            /\ UNCHANGED result
       ELSE /\ pc' = "threw"
            /\ result' = Rejected(RetriesInvalidMessage(clientOptions.retries.val))
            /\ UNCHANGED config
    /\ UNCHANGED <<clientOptions, call, frame, fetchCalls, settled, logged,
                   timers, hist, iter, snapshots>>
    /\ UNCHANGED streamVars

(***************************************************************************)
(* fetch(operation, options), the function generateFetch returns, up to    *)
(* its first await: validateRetries fails it, or httpFetch calls the       *)
(* transport.  request() and requestStream() call it after their guard.    *)
(***************************************************************************)
\* Mutant: requestStream() tests the operation as request() does.
GuardRejectsSameTest(entry, operation) ==
    entry \in {"request", "requestStream"} /\ DeferTest(operation)

\* The entry point's guard on the operation rejects the call.
GuardRejects(entry, operation) ==
    \/ entry = "request" /\ DeferTest(operation)
    \/ entry = "requestStream" /\ ~DeferTest(operation)

GuardMessage(entry) ==
    IF entry = "request" THEN DeferGuardRequestMessage ELSE DeferGuardStreamMessage

Begin(entry, operation, options) ==
    /\ call' = [entry |-> entry, operation |-> operation, options |-> options]
    /\ IF GuardRejects(entry, operation)
       THEN /\ result' = Rejected(GuardMessage(entry))
            /\ pc' = "settled"
            /\ UNCHANGED <<frame, fetchCalls, hist>>
       ELSE IF ~FetchValidates(config, options)
       THEN /\ result' = EntrySettled(entry,
                             Rejected(RetriesInvalidMessage(options.retries.val)))
            /\ pc' = "settled"
            /\ UNCHANGED <<frame, fetchCalls, hist>>
       ELSE /\ frame' = HttpFetchArgs(config, options,
                                      FetchParams(config, operation, options))
            /\ fetchCalls' = Append(fetchCalls, frame'.requestParams)
            /\ hist' = Append(hist, "call")
            /\ pc' = "transport"
            /\ UNCHANGED result
    /\ iter' = IteratorState(result')
    /\ UNCHANGED <<clientOptions, config, settled, logged, timers, snapshots>>
    /\ UNCHANGED streamVars

Fetch ==
    /\ pc = "ready"
    /\ \E operation \in Operations, options \in RequestOptionsInputs :
          Begin("fetch", operation, options)

Request ==
    /\ pc = "ready"
    /\ \E operation \in Operations, options \in RequestOptionsInputs :
          Begin("request", operation, options)

RequestStream ==
    /\ pc = "ready"
    /\ \E operation \in Operations, options \in RequestOptionsInputs :
          Begin("requestStream", operation, options)

(***************************************************************************)
(* The transport call settles and httpFetch continues: it logs and starts  *)
(* the retry sleep, or it fails or returns and the entry point settles.    *)
(***************************************************************************)
TransportSettles ==
    /\ pc = "transport"
    /\ \E outcome \in TransportOutcomes :
          LET step == HttpFetchStep(frame.requestParams, frame.count,
                                    frame.maxRetries, outcome)
          IN  /\ settled' = Append(settled, outcome)
              /\ logged' = ClientLogger(clientOptions.logger, logged, step.events)
              /\ IF step.next = "retry"
                 THEN /\ timers' = Append(timers, step.wait)
                      /\ hist' = hist \o <<"settle", "sleep">>
                      /\ pc' = "sleeping"
                      /\ UNCHANGED <<result, iter>>
                 ELSE /\ result' = EntrySettled(call.entry, step.settles)
                      /\ iter' = IteratorState(result')
                      /\ hist' = Append(hist, "settle")
                      /\ pc' = "settled"
                      /\ UNCHANGED timers
    /\ UNCHANGED <<clientOptions, config, call, frame, fetchCalls, snapshots>>
    /\ UNCHANGED streamVars

\* The invocation httpFetch recurses with after the sleep.
NextFrame(f) == [f EXCEPT !.count = f.count + 1]

(***************************************************************************)
(* The retry sleep ends and httpFetch calls itself for the next attempt,   *)
(* which calls the transport.                                              *)
(***************************************************************************)
SleepElapses ==
    /\ pc = "sleeping"
    /\ frame' = NextFrame(frame)
    /\ fetchCalls' = Append(fetchCalls, frame'.requestParams)
    /\ hist' = hist \o <<"wake", "call">>
    /\ pc' = "transport"
    /\ UNCHANGED <<clientOptions, config, call, settled, logged, timers,
                   result, iter, snapshots>>
    /\ UNCHANGED streamVars

(***************************************************************************)
(* The consumer asks the iterator of a stream that is not multipart for    *)
(* its next value: the one snapshot, then the end.                         *)
(***************************************************************************)
IteratorNext ==
    /\ pc = "settled"
    /\ result.iterator.kind \in {"error", "json"}
    /\ iter \in {"ready", "yielded"}
    /\ IF iter = "yielded"
       THEN iter' = "done" /\ UNCHANGED snapshots
       ELSE IF result.iterator.kind = "error"
       THEN /\ snapshots' = Append(snapshots,
                Snapshot(ClientResponse("undefined", "undefined",
                                        result.iterator.errors), FALSE))
            /\ iter' = "yielded"
       ELSE IF ~result.iterator.response.payload.valid
       THEN iter' = "threw" /\ UNCHANGED snapshots
       ELSE /\ snapshots' = Append(snapshots,
                Snapshot(ProcessedJson(result.iterator.response), FALSE))
            /\ iter' = "yielded"
    /\ UNCHANGED <<pc, clientOptions, config, call, frame, fetchCalls, settled,
                   logged, timers, hist, result>>
    /\ UNCHANGED streamVars

Next ==
    \/ CreateGraphQLClient
    \/ Fetch
    \/ Request
    \/ RequestStream
    \/ TransportSettles
    \/ SleepElapses
    \/ IteratorNext

Spec == Init /\ [][Next]_vars

(***************************************************************************)
(* The multipart pipeline.  The body of a multipart response is a sequence *)
(* of bytes that arrives in chunks; a text is the sequence of its          *)
(* characters.  One symbol stands for one byte or character, or for a run  *)
(* of them that nothing here looks into (a header line, the name of a      *)
(* payload).                                                               *)
(***************************************************************************)
\* The two bytes of a character that UTF-8 encodes in two bytes, the
\* character, and the replacement character a decoder puts for a byte
\* sequence that is not complete.
LeadByte == "0xC3"

ContinuationByte == "0xA9"

TwoByteChar == "e-acute"

ReplacementChar == "U+FFFD"

\* The three bytes EF BB BF, as one symbol, and the character U+FEFF they
\* encode (the byte order mark at the start of a text, a zero width no-break
\* space elsewhere).
ByteOrderMark == "0xEFBBBF"

ZeroWidthNoBreakSpace == "U+FEFF"

\* The UTF-8 decoding of the bytes of one chunk: each chunk is decoded by
\* itself, so a character whose bytes lie in two chunks is decoded as
\* replacement characters.
RECURSIVE Utf8(_)
Utf8(bytes) ==
    IF bytes = <<>> THEN <<>>
    ELSE IF Len(bytes) >= 2 /\ bytes[1] = LeadByte /\ bytes[2] = ContinuationByte
    THEN <<TwoByteChar>> \o Utf8(SubSeq(bytes, 3, Len(bytes)))
    ELSE IF bytes[1] \in {LeadByte, ContinuationByte}
    THEN <<ReplacementChar>> \o Utf8(Tail(bytes))
    ELSE IF bytes[1] = ByteOrderMark
    THEN <<ZeroWidthNoBreakSpace>> \o Utf8(Tail(bytes))
    ELSE <<bytes[1]>> \o Utf8(Tail(bytes))

\* new TextDecoder().decode(value), without {stream: true}: every call
\* starts anew, and (ignoreBOM being false) leaves out a byte order mark at
\* the start of what it decodes.
Decode(bytes) ==
    IF bytes # <<>> /\ bytes[1] = ByteOrderMark THEN Utf8(Tail(bytes)) ELSE Utf8(bytes)

\* (chunk as Buffer).toString(): the UTF-8 decoding, byte order mark kept.
BufferToString(bytes) == Utf8(bytes)

\* What getStreamBodyIterator yields for a chunk of a body of this shape.
DecodeChunk(body, bytes) ==
    IF body = "reader" THEN Decode(bytes) ELSE BufferToString(bytes)

\* String.prototype.indexOf and lastIndexOf: the 0-based index of the first
\* and of the last occurrence of searchString, or -1.
OccursAt(text, searchString, i) ==
    /\ i + Len(searchString) <= Len(text)
    /\ \A k \in 1..Len(searchString) : text[i + k] = searchString[k]

Occurrences(text, searchString) ==
    {i \in 0..Len(text) : OccursAt(text, searchString, i)}

IndexOf(text, searchString) ==
    LET at == Occurrences(text, searchString)
    IN  IF at = {} THEN -1 ELSE CHOOSE i \in at : \A j \in at : i <= j

LastIndexOf(text, searchString) ==
    LET at == Occurrences(text, searchString)
    IN  IF at = {} THEN -1 ELSE CHOOSE i \in at : \A j \in at : i >= j

\* String.prototype.slice(start) and slice(0, end), for indices within the
\* text.
SliceFrom(text, start) == SubSeq(text, start + 1, Len(text))

SliceTo(text, end) == SubSeq(text, 1, end)

\* String.prototype.split(separator): the pieces between the occurrences of
\* the separator, found from the left.
RECURSIVE Split(_, _)
Split(text, separator) ==
    LET i == IndexOf(text, separator)
    IN  IF i = -1 THEN <<text>>
        ELSE <<SliceTo(text, i)>> \o Split(SliceFrom(text, i + Len(separator)), separator)

WhiteSpace == {"\r", "\n", " ", ZeroWidthNoBreakSpace}

\* String.prototype.trim
RECURSIVE Trim(_)
Trim(text) ==
    IF text = <<>> THEN <<>>
    ELSE IF text[1] \in WhiteSpace THEN Trim(Tail(text))
    ELSE IF text[Len(text)] \in WhiteSpace THEN Trim(SubSeq(text, 1, Len(text) - 1))
    ELSE text

HEADER_SEPARATOR == <<"\r", "\n", "\r", "\n">>

\* The separator of the response of the model: "--" and the boundary token
\* of MultipartType.
Boundary == <<"-", "-", "graphql">>

(***************************************************************************)
(* BOUNDARY_HEADER_REGEX (constants.ts) and the boundary of a response     *)
(* (generateRequestStream).  A content type is the sequence of its pieces: *)
(* the key "boundary=", a quote, the token, ";" are pieces of their own.   *)
(***************************************************************************)
\* The key, which the regex matches in either case.
BoundaryKeys == {"boundary=", "BOUNDARY="}

Quote == "\""

NoMatch == [matched |-> FALSE, groups |-> <<>>]

\* The text up to the first of these pieces, or all of it.
RECURSIVE UpTo(_, _)
UpTo(text, pieces) ==
    IF text = <<>> \/ Head(text) \in pieces THEN <<>>
    ELSE <<Head(text)>> \o UpTo(Tail(text), pieces)

\* contentType.match(BOUNDARY_HEADER_REGEX): null, or the match and the
\* token it captures, which is what lies between the quotes that follow the
\* key, or else what follows the key up to the next ";".  groups[1] is the
\* whole match (index 0 of the code) and groups[2] the token (index 1 of the
\* code), in both forms: the unquoted boundary=graphql of the tests'
\* responses is read from index 1.
BoundaryHeaderMatch(contentType) ==
    LET keys == {i \in 1..Len(contentType) : contentType[i] \in BoundaryKeys}
    IN  IF keys = {} THEN NoMatch
        ELSE LET key == CHOOSE i \in keys : \A j \in keys : i <= j
                 rest == SubSeq(contentType, key + 1, Len(contentType))
                 inQuotes == IF rest # <<>> /\ Head(rest) = Quote
                             THEN UpTo(Tail(rest), {Quote}) ELSE <<>>
                 quoted == /\ inQuotes # <<>>
                           /\ Len(rest) > Len(inQuotes) + 1
                 bare == UpTo(rest, {";"})
             IN  IF quoted
                 THEN [matched |-> TRUE,
                       groups |-> << <<contentType[key], Quote>> \o inQuotes
                                        \o <<Quote>>, inQuotes >>]
                 ELSE IF bare # <<>>
                 THEN [matched |-> TRUE,
                       groups |-> << <<contentType[key]>> \o bare, bare >>]
                 ELSE NoMatch

\* Mutant: the whole match is read instead of the token.
ResponseBoundaryWholeMatch(response) ==
    LET boundaryHeader == BoundaryHeaderMatch(ContentTypeOf(response))
    IN  <<"-", "-">> \o (IF boundaryHeader.matched THEN boundaryHeader.groups[1]
                         ELSE <<"-">>)

\* `--${boundaryHeader ? boundaryHeader[1] : "-"}`: the separator the body of
\* the response is split at.
ResponseBoundary(response) ==
    LET boundaryHeader == BoundaryHeaderMatch(ContentTypeOf(response))
    IN  <<"-", "-">> \o (IF boundaryHeader.matched THEN boundaryHeader.groups[2]
                         ELSE <<"-">>)

\* Array.prototype.map over a sequence.
Map(seq, Op(_)) == [i \in 1..Len(seq) |-> Op(seq[i])]

\* The body of a part: what follows the header separator, trimmed.
PartBody(chunk) ==
    Trim(SliceFrom(chunk, IndexOf(chunk, HEADER_SEPARATOR) + Len(HEADER_SEPARATOR)))

\* readStreamChunk, were it to yield every piece of the buffer, the one after
\* the last boundary too.
ReadStreamChunkEager(buf, textChunk, boundary) ==
    LET joined == buf \o textChunk
    IN  IF IndexOf(joined, boundary) > -1
        THEN [buffer |-> <<>>,
              chunkBodies |->
                  Map(SelectSeq(Split(joined, boundary),
                                LAMBDA chunk : Len(Trim(chunk)) > 0),
                      PartBody)]
        ELSE [buffer |-> joined, chunkBodies |-> <<>>]

\* One round of the loop of readStreamChunk: the buffer takes the chunk; if
\* it holds a boundary, the parts before the last boundary are the
\* chunkBodies and the buffer keeps what follows that boundary.
ReadStreamChunk(buf, textChunk, boundary) ==
    LET joined == buf \o textChunk
    IN  IF IndexOf(joined, boundary) > -1
        THEN LET lastBoundaryIndex == LastIndexOf(joined, boundary)
                 fullResponses == SliceTo(joined, lastBoundaryIndex)
                 chunkBodies ==
                     Map(SelectSeq(Split(fullResponses, boundary),
                                   LAMBDA chunk : Len(Trim(chunk)) > 0),
                         PartBody)
                 rest == SliceFrom(joined, lastBoundaryIndex + Len(boundary))
             IN  [buffer |-> IF Trim(rest) = <<"-", "-">> THEN <<>> ELSE rest,
                  chunkBodies |-> chunkBodies]
        ELSE [buffer |-> joined, chunkBodies |-> <<>>]

(***************************************************************************)
(* Data.  An object tree is the function from the paths of its leaves to   *)
(* the leaves; a leaf is a text, or the object without keys.  The tree     *)
(* without leaves is the object {}.                                        *)
(***************************************************************************)
EmptyObject == <<>>

EmptyLeaf == <<"{}">>

IsPrefix(p, q) == Len(p) <= Len(q) /\ SubSeq(q, 1, Len(p)) = p

\* buildDataObjectByPath(path, data) (utilities.ts): data at path.
buildDataObjectByPath(path, data) ==
    IF DOMAIN data = {}
    THEN IF path = <<>> THEN EmptyObject ELSE (path :> EmptyLeaf)
    ELSE [p \in {path \o q : q \in DOMAIN data} |->
             data[SubSeq(p, Len(path) + 1, Len(p))]]

\* The keys that stand for the indices of an array, in order.
IndexKeys == <<"[0]", "[1]", "[2]", "[3]">>

\* The deep merge, were it to append the elements of an array of the new
\* object to the array of the base object instead of merging them index by
\* index.
CombineObjectsAppending(baseObject, incoming) ==
    LET isIndex(k) == \E i \in 1..Len(IndexKeys) : IndexKeys[i] = k
        number(k) == CHOOSE i \in 1..Len(IndexKeys) : IndexKeys[i] = k
        arrayAt(p) ==
            IF \E n \in 1..Len(p) : isIndex(p[n])
            THEN CHOOSE n \in 1..Len(p) :
                     isIndex(p[n]) /\ \A m \in 1..(n - 1) : ~isIndex(p[m])
            ELSE 0
        elements(a) ==
            {k \in 1..Len(IndexKeys) :
                \E bp \in DOMAIN baseObject : IsPrefix(a \o <<IndexKeys[k]>>, bp)}
        shift(p) ==
            LET n == arrayAt(p)
            IN  IF n = 0 THEN p
                ELSE [p EXCEPT ![n] =
                         IndexKeys[number(p[n]) + Cardinality(elements(SubSeq(p, 1, n - 1)))]]
        newObject == [q \in {shift(p) : p \in DOMAIN incoming} |->
                         incoming[CHOOSE p \in DOMAIN incoming : shift(p) = q]]
    IN
        LET yields(np, bp) ==
                /\ newObject[np] = EmptyLeaf /\ IsPrefix(np, bp)
                /\ (bp # np \/ baseObject[bp] = EmptyLeaf)
            keptBase ==
                {bp \in DOMAIN baseObject :
                    \A np \in DOMAIN newObject :
                        (IsPrefix(bp, np) \/ IsPrefix(np, bp)) => yields(np, bp)}
            keptNew ==
                {np \in DOMAIN newObject : \A bp \in keptBase : ~IsPrefix(np, bp)}
        IN  [p \in keptBase \cup keptNew |->
                IF p \in keptNew THEN newObject[p] ELSE baseObject[p]]

\* The deep merge of two object trees (combineObjects, utilities.ts): objects
\* are combined key by key, and what the new object has at a key replaces a
\* scalar, or is replaced by a scalar.
CombineObjects(baseObject, newObject) ==
    LET yields(np, bp) ==
            /\ newObject[np] = EmptyLeaf /\ IsPrefix(np, bp)
            /\ (bp # np \/ baseObject[bp] = EmptyLeaf)
        keptBase ==
            {bp \in DOMAIN baseObject :
                \A np \in DOMAIN newObject :
                    (IsPrefix(bp, np) \/ IsPrefix(np, bp)) => yields(np, bp)}
        keptNew ==
            {np \in DOMAIN newObject : \A bp \in keptBase : ~IsPrefix(np, bp)}
    IN  [p \in keptBase \cup keptNew |->
            IF p \in keptNew THEN newObject[p] ELSE baseObject[p]]

\* buildCombinedDataObject([initialDatum, ...remainingData]) (utilities.ts)
RECURSIVE buildCombinedDataObject(_)
buildCombinedDataObject(data) ==
    IF Len(data) = 1 THEN data[1]
    ELSE buildCombinedDataObject(
             <<CombineObjects(data[1], data[2])>> \o SubSeq(data, 3, Len(data)))

\* getKeyValueIfValid("data", tree): no data for the object without keys.
NoData == [has |-> FALSE, val |-> EmptyObject]

DataIfValid(tree) ==
    IF DOMAIN tree = {} THEN NoData ELSE [has |-> TRUE, val |-> tree]

(***************************************************************************)
(* The payloads of the parts: what JSON.parse makes of a part body.        *)
(***************************************************************************)
NoPath == [has |-> FALSE, val |-> <<>>]

NoList == [has |-> FALSE, val |-> <<>>]

StreamPayload(data, path, hasNext, extensions, errors) ==
    [valid |-> TRUE, data |-> data, path |-> path, hasNext |-> hasNext,
     extensions |-> extensions, errors |-> errors]

NotJson ==
    [valid |-> FALSE, data |-> NoData, path |-> NoPath, hasNext |-> FALSE,
     extensions |-> "undefined", errors |-> NoList]

\* The payloads by the name that stands for their text.  "more" is the
\* payload whose data holds the characters that follow its name.
StreamPayloads ==
    ("first" :> StreamPayload(DataIfValid(<<"shop", "id">> :> <<"1">>), NoPath, TRUE,
                              "extensions1", NoList)) @@
    ("more" :> StreamPayload(DataIfValid(<<"name">> :> <<>>), Some(<<"shop">>), FALSE,
                             "extensions2", NoList)) @@
    ("last" :> StreamPayload(DataIfValid(<<"description">> :> <<"d">>),
                             Some(<<"shop">>), FALSE, "undefined", Some(<<>>))) @@
    ("partial" :> StreamPayload(DataIfValid(<<"shop", "name">> :> <<"n">>), NoPath, TRUE,
                                "undefined", Some(<<"error1">>))) @@
    ("failed" :> StreamPayload(NoData, NoPath, FALSE, "undefined",
                               Some(<<"error2", "error3">>))) @@
    ("bare" :> StreamPayload(NoData, NoPath, TRUE, "extensions2", NoList)) @@
    ("empty" :> StreamPayload(NoData, NoPath, FALSE, "extensions1", NoList)) @@
    ("flat" :> StreamPayload(DataIfValid(<<"shop">> :> <<"s">>), NoPath, FALSE,
                             "undefined", NoList))

ValueChars == {TwoByteChar, ReplacementChar, ZeroWidthNoBreakSpace}

\* JSON.parse(value): the text of a payload is "{", its name and "}", with
\* the characters of its string between name and "}".
JsonParse(value) ==
    IF /\ Len(value) >= 3 /\ value[1] = "{" /\ value[Len(value)] = "}"
       /\ value[2] \in DOMAIN StreamPayloads
    THEN LET chars == SubSeq(value, 3, Len(value) - 1)
         IN  IF value[2] = "more" /\ \A i \in 1..Len(chars) : chars[i] \in ValueChars
             THEN [StreamPayloads["more"] EXCEPT
                      !.data = DataIfValid(<<"name">> :> chars)]
             ELSE IF value[2] # "more" /\ chars = <<>>
             THEN StreamPayloads[value[2]]
             ELSE NotJson
    ELSE NotJson

(***************************************************************************)
(* The multipart iterator of generateRequestStream: what it does with one  *)
(* batch of part bodies.                                                   *)
(***************************************************************************)
\* payloadData, were it to take the data as it is, not at its path.
PayloadDataUnlifted(payload) == payload.data.val

\* payloadData: data at path when the payload has both, else data, else {}.
PayloadData(payload) ==
    IF payload.data.has /\ payload.path.has
    THEN buildDataObjectByPath(payload.path.val, payload.data.val)
    ELSE payload.data.val

\* Array.prototype.flat over a sequence of lists.
RECURSIVE Flat(_)
Flat(lists) == IF lists = <<>> THEN <<>> ELSE Head(lists) \o Flat(Tail(lists))

\* An error thrown inside the iterator's try block, or none.
NoFailure == [failed |-> FALSE, message |-> <<>>, graphQLErrors |-> <<>>]

Failure(message, graphQLErrors) ==
    [failed |-> TRUE, message |-> message, graphQLErrors |-> graphQLErrors]

ParseFailureMessage == <<"Error in parsing multipart response - ">> \o JsonSyntaxError

TerminatedMessage == <<"Response stream terminated unexpectedly">>

\* The loop body, were it to leave streamHasNext as it was.
ProcessBatchKeepsHasNext(acc, chunkBodies) ==
    LET payloads == Map(chunkBodies, JsonParse)
        dataArray == Map(payloads, LAMBDA payload :
                        [data |-> PayloadData(payload),
                         errors |-> payload.errors,
                         extensions |-> KeyValueIfValid(payload.extensions),
                         hasNext |-> payload.hasNext])
        withExtensions == SelectSeq(dataArray, LAMBDA datum : Truthy(datum.extensions))
        responseErrors ==
            Flat(Map(SelectSeq(dataArray,
                               LAMBDA datum : datum.errors.has /\ Len(datum.errors.val) > 0),
                     LAMBDA datum : datum.errors.val))
        combined ==
            buildCombinedDataObject(
                <<acc.combinedData>> \o Map(dataArray, LAMBDA datum : datum.data))
    IN  IF \E i \in 1..Len(payloads) : ~payloads[i].valid
        THEN [acc |-> acc, failure |-> Failure(ParseFailureMessage, <<>>)]
        ELSE [acc |-> [combinedData |-> combined,
                       responseExtensions |->
                           IF withExtensions # <<>> THEN withExtensions[1].extensions
                           ELSE acc.responseExtensions,
                       streamHasNext |-> acc.streamHasNext],
              failure |->
                  IF responseErrors # <<>> THEN Failure(GQL_API_ERROR, responseErrors)
                  ELSE IF DOMAIN combined = {} THEN Failure(NO_DATA_OR_ERRORS_ERROR, <<>>)
                  ELSE NoFailure]

\* The loop body, were it to throw for the errors of a batch before it
\* merges the data of the batch.
ProcessBatchThrowsFirst(acc, chunkBodies) ==
    LET payloads == Map(chunkBodies, JsonParse)
        dataArray == Map(payloads, LAMBDA payload :
                        [data |-> PayloadData(payload),
                         errors |-> payload.errors,
                         extensions |-> KeyValueIfValid(payload.extensions),
                         hasNext |-> payload.hasNext])
        withExtensions == SelectSeq(dataArray, LAMBDA datum : Truthy(datum.extensions))
        responseErrors ==
            Flat(Map(SelectSeq(dataArray,
                               LAMBDA datum : datum.errors.has /\ Len(datum.errors.val) > 0),
                     LAMBDA datum : datum.errors.val))
        combined ==
            buildCombinedDataObject(
                <<acc.combinedData>> \o Map(dataArray, LAMBDA datum : datum.data))
    IN  IF \E i \in 1..Len(payloads) : ~payloads[i].valid
        THEN [acc |-> acc, failure |-> Failure(ParseFailureMessage, <<>>)]
        ELSE IF responseErrors # <<>>
        THEN [acc |-> acc, failure |-> Failure(GQL_API_ERROR, responseErrors)]
        ELSE [acc |-> [combinedData |-> combined,
                       responseExtensions |->
                           IF withExtensions # <<>> THEN withExtensions[1].extensions
                           ELSE acc.responseExtensions,
                       streamHasNext |-> dataArray[Len(dataArray)].hasNext],
              failure |->
                  IF responseErrors # <<>> THEN Failure(GQL_API_ERROR, responseErrors)
                  ELSE IF DOMAIN combined = {} THEN Failure(NO_DATA_OR_ERRORS_ERROR, <<>>)
                  ELSE NoFailure]

\* The loop body, were it to yield the snapshot of a batch that leaves the
\* combined data empty.
ProcessBatchYieldsEmpty(acc, chunkBodies) ==
    LET payloads == Map(chunkBodies, JsonParse)
        dataArray == Map(payloads, LAMBDA payload :
                        [data |-> PayloadData(payload),
                         errors |-> payload.errors,
                         extensions |-> KeyValueIfValid(payload.extensions),
                         hasNext |-> payload.hasNext])
        withExtensions == SelectSeq(dataArray, LAMBDA datum : Truthy(datum.extensions))
        responseErrors ==
            Flat(Map(SelectSeq(dataArray,
                               LAMBDA datum : datum.errors.has /\ Len(datum.errors.val) > 0),
                     LAMBDA datum : datum.errors.val))
        combined ==
            buildCombinedDataObject(
                <<acc.combinedData>> \o Map(dataArray, LAMBDA datum : datum.data))
    IN  IF \E i \in 1..Len(payloads) : ~payloads[i].valid
        THEN [acc |-> acc, failure |-> Failure(ParseFailureMessage, <<>>)]
        ELSE [acc |-> [combinedData |-> combined,
                       responseExtensions |->
                           IF withExtensions # <<>> THEN withExtensions[1].extensions
                           ELSE acc.responseExtensions,
                       streamHasNext |-> dataArray[Len(dataArray)].hasNext],
              failure |->
                  IF responseErrors # <<>> THEN Failure(GQL_API_ERROR, responseErrors)
                  ELSE NoFailure]

\* The loop body, were it to merge the parts of a batch that parse before it
\* fails for the one that does not.
ProcessBatchMergesValid(acc, chunkBodies) ==
    LET payloads == Map(chunkBodies, JsonParse)
        dataArray == Map(payloads, LAMBDA payload :
                        [data |-> PayloadData(payload),
                         errors |-> payload.errors,
                         extensions |-> KeyValueIfValid(payload.extensions),
                         hasNext |-> payload.hasNext])
        withExtensions == SelectSeq(dataArray, LAMBDA datum : Truthy(datum.extensions))
        responseErrors ==
            Flat(Map(SelectSeq(dataArray,
                               LAMBDA datum : datum.errors.has /\ Len(datum.errors.val) > 0),
                     LAMBDA datum : datum.errors.val))
        combined ==
            buildCombinedDataObject(
                <<acc.combinedData>> \o Map(dataArray, LAMBDA datum : datum.data))
    IN  IF \E i \in 1..Len(payloads) : ~payloads[i].valid
        THEN [acc |-> [acc EXCEPT !.combinedData = combined],
              failure |-> Failure(ParseFailureMessage, <<>>)]
        ELSE [acc |-> [combinedData |-> combined,
                       responseExtensions |->
                           IF withExtensions # <<>> THEN withExtensions[1].extensions
                           ELSE acc.responseExtensions,
                       streamHasNext |-> dataArray[Len(dataArray)].hasNext],
              failure |->
                  IF responseErrors # <<>> THEN Failure(GQL_API_ERROR, responseErrors)
                  ELSE IF DOMAIN combined = {} THEN Failure(NO_DATA_OR_ERRORS_ERROR, <<>>)
                  ELSE NoFailure]

\* The loop body, were it to merge the data of the batch without the
\* combined data of the earlier batches.
ProcessBatchForgets(acc, chunkBodies) ==
    LET payloads == Map(chunkBodies, JsonParse)
        dataArray == Map(payloads, LAMBDA payload :
                        [data |-> PayloadData(payload),
                         errors |-> payload.errors,
                         extensions |-> KeyValueIfValid(payload.extensions),
                         hasNext |-> payload.hasNext])
        withExtensions == SelectSeq(dataArray, LAMBDA datum : Truthy(datum.extensions))
        responseErrors ==
            Flat(Map(SelectSeq(dataArray,
                               LAMBDA datum : datum.errors.has /\ Len(datum.errors.val) > 0),
                     LAMBDA datum : datum.errors.val))
        combined ==
            buildCombinedDataObject(
                <<EmptyObject>> \o Map(dataArray, LAMBDA datum : datum.data))
    IN  IF \E i \in 1..Len(payloads) : ~payloads[i].valid
        THEN [acc |-> acc, failure |-> Failure(ParseFailureMessage, <<>>)]
        ELSE [acc |-> [combinedData |-> combined,
                       responseExtensions |->
                           IF withExtensions # <<>> THEN withExtensions[1].extensions
                           ELSE acc.responseExtensions,
                       streamHasNext |-> dataArray[Len(dataArray)].hasNext],
              failure |->
                  IF responseErrors # <<>> THEN Failure(GQL_API_ERROR, responseErrors)
                  ELSE IF DOMAIN combined = {} THEN Failure(NO_DATA_OR_ERRORS_ERROR, <<>>)
                  ELSE NoFailure]

\* The loop body, were it to merge the combined data of the earlier batches
\* over the data of the batch, not under it.
ProcessBatchOldOverNew(acc, chunkBodies) ==
    LET payloads == Map(chunkBodies, JsonParse)
        dataArray == Map(payloads, LAMBDA payload :
                        [data |-> PayloadData(payload),
                         errors |-> payload.errors,
                         extensions |-> KeyValueIfValid(payload.extensions),
                         hasNext |-> payload.hasNext])
        withExtensions == SelectSeq(dataArray, LAMBDA datum : Truthy(datum.extensions))
        responseErrors ==
            Flat(Map(SelectSeq(dataArray,
                               LAMBDA datum : datum.errors.has /\ Len(datum.errors.val) > 0),
                     LAMBDA datum : datum.errors.val))
        combined ==
            buildCombinedDataObject(
                Map(dataArray, LAMBDA datum : datum.data) \o <<acc.combinedData>>)
    IN  IF \E i \in 1..Len(payloads) : ~payloads[i].valid
        THEN [acc |-> acc, failure |-> Failure(ParseFailureMessage, <<>>)]
        ELSE [acc |-> [combinedData |-> combined,
                       responseExtensions |->
                           IF withExtensions # <<>> THEN withExtensions[1].extensions
                           ELSE acc.responseExtensions,
                       streamHasNext |-> dataArray[Len(dataArray)].hasNext],
              failure |->
                  IF responseErrors # <<>> THEN Failure(GQL_API_ERROR, responseErrors)
                  ELSE IF DOMAIN combined = {} THEN Failure(NO_DATA_OR_ERRORS_ERROR, <<>>)
                  ELSE NoFailure]

\* Mutant: streamHasNext is the hasNext of the first payload of the batch.
ProcessBatchFirstHasNext(acc, chunkBodies) ==
    LET payloads == Map(chunkBodies, JsonParse)
        dataArray == Map(payloads, LAMBDA payload :
                        [data |-> PayloadData(payload),
                         errors |-> payload.errors,
                         extensions |-> KeyValueIfValid(payload.extensions),
                         hasNext |-> payload.hasNext])
        withExtensions == SelectSeq(dataArray, LAMBDA datum : Truthy(datum.extensions))
        responseErrors ==
            Flat(Map(SelectSeq(dataArray,
                               LAMBDA datum : datum.errors.has /\ Len(datum.errors.val) > 0),
                     LAMBDA datum : datum.errors.val))
        combined ==
            buildCombinedDataObject(
                <<acc.combinedData>> \o Map(dataArray, LAMBDA datum : datum.data))
    IN  IF \E i \in 1..Len(payloads) : ~payloads[i].valid
        THEN [acc |-> acc, failure |-> Failure(ParseFailureMessage, <<>>)]
        ELSE [acc |-> [combinedData |-> combined,
                       responseExtensions |->
                           IF withExtensions # <<>> THEN withExtensions[1].extensions
                           ELSE acc.responseExtensions,
                       streamHasNext |-> dataArray[1].hasNext],
              failure |->
                  IF responseErrors # <<>> THEN Failure(GQL_API_ERROR, responseErrors)
                  ELSE IF DOMAIN combined = {} THEN Failure(NO_DATA_OR_ERRORS_ERROR, <<>>)
                  ELSE NoFailure]

\* The body of the loop over the batches, for the accumulator acc =
\* [combinedData, responseExtensions, streamHasNext]: the accumulator after
\* it and what it threw, if it did.
ProcessBatch(acc, chunkBodies) ==
    LET payloads == Map(chunkBodies, JsonParse)
        dataArray == Map(payloads, LAMBDA payload :
                        [data |-> PayloadData(payload),
                         errors |-> payload.errors,
                         extensions |-> KeyValueIfValid(payload.extensions),
                         hasNext |-> payload.hasNext])
        withExtensions == SelectSeq(dataArray, LAMBDA datum : Truthy(datum.extensions))
        responseErrors ==
            Flat(Map(SelectSeq(dataArray,
                               LAMBDA datum : datum.errors.has /\ Len(datum.errors.val) > 0),
                     LAMBDA datum : datum.errors.val))
        combined ==
            buildCombinedDataObject(
                <<acc.combinedData>> \o Map(dataArray, LAMBDA datum : datum.data))
    IN  IF \E i \in 1..Len(payloads) : ~payloads[i].valid
        THEN [acc |-> acc, failure |-> Failure(ParseFailureMessage, <<>>)]
        ELSE [acc |-> [combinedData |-> combined,
                       responseExtensions |->
                           IF withExtensions # <<>> THEN withExtensions[1].extensions
                           ELSE acc.responseExtensions,
                       streamHasNext |-> dataArray[Len(dataArray)].hasNext],
              failure |->
                  IF responseErrors # <<>> THEN Failure(GQL_API_ERROR, responseErrors)
                  ELSE IF DOMAIN combined = {} THEN Failure(NO_DATA_OR_ERRORS_ERROR, <<>>)
                  ELSE NoFailure]

\* The errors block of a snapshot of a multipart stream, and no such block.
NoStreamErrors ==
    [present |-> FALSE, networkStatusCode |-> None, message |-> <<>>,
     graphQLErrors |-> <<>>]

StreamErrors(status, failure) ==
    [present |-> TRUE, networkStatusCode |-> Some(status),
     message |-> formatErrorMessage(failure.message),
     graphQLErrors |-> failure.graphQLErrors]

\* What the iterator yields after a batch, and what its catch block yields.
StreamSnapshot(acc) ==
    [data |-> DataIfValid(acc.combinedData),
     extensions |-> KeyValueIfValid(acc.responseExtensions),
     errors |-> NoStreamErrors, hasNext |-> acc.streamHasNext]

ErrorSnapshot(acc, status, failure) ==
    [data |-> DataIfValid(acc.combinedData),
     extensions |-> KeyValueIfValid(acc.responseExtensions),
     errors |-> StreamErrors(status, failure), hasNext |-> FALSE]

(***************************************************************************)
(* The bodies of the multipart responses: up to MaxParts parts, closed by  *)
(* the terminating boundary or ending before it, delivered in up to        *)
(* MaxChunks chunks cut anywhere.                                          *)
(***************************************************************************)
MaxParts == 2

MaxChunks == 3

PartNames == DOMAIN StreamPayloads \cup {"html"}

\* The bytes of the text of a payload; "html" is a part body that is not
\* JSON.
JsonBytes(name) ==
    CASE name = "html" -> <<"<", "html", ">">>
      [] name = "more" -> <<"{", name, LeadByte, ContinuationByte, "}">>
      [] name = "marked" -> <<"{", "more", ByteOrderMark, "}">>
      [] OTHER -> <<"{", name, "}">>

PartBytes(name) ==
    Boundary \o <<"Content-Type: application/json">> \o HEADER_SEPARATOR
        \o JsonBytes(name) \o <<"\r", "\n">>

RECURSIVE BodyBytes(_, _)
BodyBytes(parts, closed) ==
    IF parts = <<>> THEN (IF closed THEN Boundary \o <<"-", "-">> ELSE <<>>)
    ELSE PartBytes(Head(parts)) \o BodyBytes(Tail(parts), closed)

PartLists == UNION {[1..n -> PartNames] : n \in 1..MaxParts}

\* The ways to cut a text into at most k chunks, none of them empty.
RECURSIVE Chunkings(_, _)
Chunkings(bytes, k) ==
    {<<bytes>>} \cup
    (IF k <= 1 THEN {}
     ELSE UNION {{<<SubSeq(bytes, 1, i)>> \o rest :
                     rest \in Chunkings(SubSeq(bytes, i + 1, Len(bytes)), k - 1)} :
                 i \in 1..(Len(bytes) - 1)})

(***************************************************************************)
(* requestStream() has resolved with the iterator of a multipart response. *)
(***************************************************************************)
StreamOperation == <<"x", "{", "@", " ", "DEFER", "{", "x">>

StreamOptions ==
    [variables |-> NoText, url |-> NoText, headers |-> NoHeaders, retries |-> None]

StreamResponse == MakeResponse(200, MultipartType, "reader", EmptyPayload)

\* The state in which requestStream() has resolved with the multipart
\* iterator of this response, nothing of the body read yet.
RequestStreamResolves(response) ==
    /\ pc = "settled"
    /\ clientOptions = [url |-> DefaultUrl, headers |-> DefaultHeaders,
                        retries |-> None, logger |-> TRUE]
    /\ config = [url |-> DefaultUrl, headers |-> DefaultHeaders, retries |-> 0]
    /\ call = [entry |-> "requestStream", operation |-> StreamOperation,
               options |-> StreamOptions]
    /\ frame = HttpFetchArgs(config, StreamOptions,
                             FetchParams(config, StreamOperation, StreamOptions))
    /\ fetchCalls = <<frame.requestParams>>
    /\ settled = <<Returned(response)>>
    /\ logged = ClientLogger(TRUE, <<>>,
                    HttpFetchStep(frame.requestParams, frame.count, frame.maxRetries,
                                  Returned(response)).events)
    /\ timers = <<>>
    /\ hist = <<"call", "settle">>
    /\ result = RequestStreamSettled(ResolvedResponse(response))
    /\ iter = "ready"
    /\ snapshots = <<>>
    /\ chunksRead = 0
    /\ buffer = <<>>
    /\ batches = <<>>
    /\ combinedData = EmptyObject
    /\ responseExtensions = "undefined"
    /\ streamHasNext = TRUE
    /\ reader = "none"
    /\ lift = NoLift

\* The same, this call being the only one.
StreamStarts(response) ==
    /\ RequestStreamResolves(response)
    /\ streams = NoStreams

InitStream ==
    /\ StreamStarts(StreamResponse)
    /\ \E parts \in PartLists, closed \in BOOLEAN :
          streamBody \in Chunkings(BodyBytes(parts, closed), MaxChunks)

\* The accumulator of the stream.
Accumulator ==
    [combinedData |-> combinedData, responseExtensions |-> responseExtensions,
     streamHasNext |-> streamHasNext]

\* The reader of a body that has getReader(): getStreamBodyIterator acquires
\* it when it starts, and cancels it in its finally block.  A body that is an
\* async sequence has no reader.
Acquired(r) ==
    IF result.iterator.response.body = "reader" THEN "acquired" ELSE r

Cancelled(r) ==
    IF result.iterator.response.body = "reader" THEN "cancelled" ELSE r

\* The consumer's next(), were the iterator to go on reading the body after
\* the snapshot of its catch block.
MultipartNextResumes ==
    /\ pc = "settled"
    /\ result.iterator.kind = "multipart"
    /\ iter \in {"ready", "yielded", "failed"}
    /\ iter' = "reading"
    /\ reader' = IF iter = "ready" THEN Acquired(reader) ELSE reader
    /\ UNCHANGED <<clientVars, snapshots, parserVars, lift, streams>>

(***************************************************************************)
(* The consumer asks the multipart iterator for its next value: the        *)
(* iterator starts, or goes on from its yield to read the body, or, after  *)
(* the snapshot of its catch block, ends.                                  *)
(***************************************************************************)
MultipartNext ==
    /\ pc = "settled"
    /\ result.iterator.kind = "multipart"
    /\ iter \in {"ready", "yielded", "failed"}
    /\ iter' = IF iter = "failed" THEN "done" ELSE "reading"
    /\ reader' = IF iter = "ready" THEN Acquired(reader) ELSE reader
    /\ UNCHANGED <<clientVars, snapshots, parserVars, lift, streams>>

(***************************************************************************)
(* The body delivers a chunk: getStreamBodyIterator decodes it,            *)
(* readStreamChunk takes it into its buffer and, when parts are complete,  *)
(* yields them, and the iterator processes them and yields a snapshot, or  *)
(* the snapshot of its catch block.                                        *)
(***************************************************************************)
ChunkArrives ==
    /\ iter = "reading"
    /\ chunksRead < Len(streamBody)
    /\ LET read == ReadStreamChunk(buffer,
                       DecodeChunk(result.iterator.response.body,
                                   streamBody[chunksRead + 1]),
                       ResponseBoundary(result.iterator.response))
           step == ProcessBatch(Accumulator, read.chunkBodies)
       IN  /\ chunksRead' = chunksRead + 1
           /\ buffer' = read.buffer
           /\ IF Len(read.chunkBodies) > 0
              THEN /\ batches' = Append(batches, read.chunkBodies)
                   /\ combinedData' = step.acc.combinedData
                   /\ responseExtensions' = step.acc.responseExtensions
                   /\ streamHasNext' = step.acc.streamHasNext
                   /\ IF step.failure.failed
                      THEN /\ snapshots' = Append(snapshots,
                                  ErrorSnapshot(step.acc, result.iterator.response.status,
                                                step.failure))
                           /\ iter' = "failed"
                           /\ reader' = Cancelled(reader)
                      ELSE /\ snapshots' = Append(snapshots, StreamSnapshot(step.acc))
                           /\ iter' = "yielded"
                           /\ UNCHANGED reader
              ELSE UNCHANGED <<batches, combinedData, responseExtensions,
                               streamHasNext, snapshots, iter, reader>>
    /\ UNCHANGED <<clientVars, streamBody, lift, streams>>

\* The end of the body, were the iterator to end without looking at
\* streamHasNext.
BodyEndsQuietly ==
    /\ iter = "reading"
    /\ chunksRead = Len(streamBody)
    /\ iter' = "done"
    /\ reader' = Cancelled(reader)
    /\ UNCHANGED <<clientVars, snapshots, parserVars, lift, streams>>

(***************************************************************************)
(* The body ends: the loops end, and the iterator ends, or throws and      *)
(* yields the snapshot of its catch block when streamHasNext is set.       *)
(***************************************************************************)
BodyEnds ==
    /\ iter = "reading"
    /\ chunksRead = Len(streamBody)
    /\ IF streamHasNext
       THEN /\ snapshots' = Append(snapshots,
                   ErrorSnapshot(Accumulator, result.iterator.response.status,
                                 Failure(TerminatedMessage, <<>>)))
            /\ iter' = "failed"
       ELSE /\ iter' = "done"
            /\ UNCHANGED snapshots
    /\ reader' = Cancelled(reader)
    /\ UNCHANGED <<clientVars, parserVars, lift, streams>>

\* The consumer's return(), were it to end the iterator where it is and
\* leave the loops over the body as they are.
IteratorReturnLeavesReader ==
    /\ pc = "settled"
    /\ result.iterator.kind = "multipart"
    /\ iter \in {"yielded", "failed"}
    /\ iter' = IF iter = "yielded" THEN "returned" ELSE "done"
    /\ UNCHANGED <<clientVars, snapshots, streamVars>>

(***************************************************************************)
(* The consumer stops after a snapshot (a break in its for await loop      *)
(* calls return() on the iterator).  At the yield of the loop, return()    *)
(* closes the for await over readStreamChunk, which closes the for await   *)
(* over the body iterator, whose finally cancels the reader.  At the yield *)
(* of the catch block the loops have been closed already, and return()     *)
(* ends the iterator as next() does.                                       *)
(***************************************************************************)
IteratorReturn ==
    /\ pc = "settled"
    /\ result.iterator.kind = "multipart"
    /\ iter \in {"yielded", "failed"}
    /\ iter' = IF iter = "yielded" THEN "returned" ELSE "done"
    /\ reader' = Cancelled(reader)
    /\ UNCHANGED <<clientVars, snapshots, parserVars, lift, streams>>

NextStream ==
    \/ MultipartNext
    \/ ChunkArrives
    \/ BodyEnds
    \/ IteratorReturn

SpecStream == InitStream /\ [][NextStream]_vars

(***************************************************************************)
(* The two shapes of a body: the multipart iterator of a response whose    *)
(* body has getReader(), and of one whose body is an async sequence, over  *)
(* bodies with a U+FEFF in a value.                                        *)
(***************************************************************************)
BodyShapes == {"reader", "iterable"}

ShapePartNames == {"first", "more", "marked", "failed"}

ShapePartLists == UNION {[1..n -> ShapePartNames] : n \in 1..MaxParts}

InitShapes ==
    /\ \E body \in BodyShapes :
          StreamStarts(MakeResponse(200, MultipartType, body, EmptyPayload))
    /\ \E parts \in ShapePartLists, closed \in BOOLEAN :
          streamBody \in Chunkings(BodyBytes(parts, closed), MaxChunks)

SpecShapes == InitShapes /\ [][NextStream]_vars

(***************************************************************************)
(* The merger by itself: the data of a payload is lifted to its path, and  *)
(* merged into the combined data, for paths of object keys and array       *)
(* indices and data that is {}, a scalar, an object or an array.           *)
(***************************************************************************)
MaxPathLen == 2

MaxMerges == 2

LiftKeys == {"shop", "name", "[0]"}

LiftPaths == UNION {[1..n -> LiftKeys] : n \in 1..MaxPathLen}

LiftData ==
    {EmptyObject, <<>> :> <<"s">>, <<"id">> :> <<"1">>, <<"[0]", "id">> :> <<"1">>}

InitMerger ==
    /\ StreamStarts(StreamResponse)
    /\ streamBody = <<>>

\* A payload with data and path arrives: its data is lifted to its path.
LiftPart ==
    /\ ~lift.pending
    /\ lift.merges < MaxMerges
    /\ \E path \in LiftPaths, data \in LiftData :
          lift' = [pending |-> TRUE, path |-> path, data |-> data,
                   object |-> PayloadData(
                       StreamPayload([has |-> TRUE, val |-> data], Some(path), FALSE,
                                     "undefined", NoList)),
                   merges |-> lift.merges]
    /\ UNCHANGED <<clientVars, iter, snapshots, parserVars, reader, streams>>

\* The lifted data is merged into the combined data.
MergePart ==
    /\ lift.pending
    /\ combinedData' = buildCombinedDataObject(<<combinedData, lift.object>>)
    /\ lift' = [lift EXCEPT !.pending = FALSE, !.merges = @ + 1]
    /\ UNCHANGED <<clientVars, iter, snapshots, streamBody, chunksRead, buffer,
                   batches, responseExtensions, streamHasNext, reader, streams>>

NextMerger ==
    \/ LiftPart
    \/ MergePart

SpecMerger == InitMerger /\ [][NextMerger]_vars

(***************************************************************************)
(* Responses that declare their boundary in each of the forms: the body of *)
(* each is delimited by "--" and the token it declares, or by "---" when   *)
(* it declares none.                                                       *)
(***************************************************************************)
BoundaryTokens == {"graphql", "abc"}

\* How a content type declares its boundary, and what follows the
\* declaration.
BoundaryDeclarations ==
    {[form |-> "none", key |-> "boundary=", token |-> "graphql", charset |-> FALSE]} \cup
    {[form |-> f, key |-> "boundary=", token |-> t, charset |-> (t = "abc")] :
        f \in {"quoted", "unquoted"}, t \in BoundaryTokens} \cup
    {[form |-> "unquoted", key |-> "BOUNDARY=", token |-> "abc", charset |-> FALSE]}

DeclaredType(d) ==
    [has |-> TRUE,
     val |-> <<"multipart/mixed">>
             \o (CASE d.form = "none" -> <<>>
                   [] d.form = "quoted" -> <<"; ", d.key, Quote, d.token, Quote>>
                   [] d.form = "unquoted" -> <<"; ", d.key, d.token>>)
             \o (IF d.charset THEN <<";", " charset=utf-8">> ELSE <<>>)]

\* The separator of the body of such a response.
DeclaredSeparator(d) ==
    IF d.form = "none" THEN <<"-", "-", "-">> ELSE <<"-", "-", d.token>>

BoundaryPartNames == {"first", "last"}

BoundaryPartLists == UNION {[1..n -> BoundaryPartNames] : n \in 1..MaxParts}

RECURSIVE SeparatedBody(_, _, _)
SeparatedBody(separator, parts, closed) ==
    IF parts = <<>> THEN (IF closed THEN separator \o <<"-", "-">> ELSE <<>>)
    ELSE separator \o <<"Content-Type: application/json">> \o HEADER_SEPARATOR
             \o JsonBytes(Head(parts)) \o <<"\r", "\n">>
             \o SeparatedBody(separator, Tail(parts), closed)

InitBoundary ==
    \E d \in BoundaryDeclarations :
        /\ StreamStarts(MakeResponse(200, DeclaredType(d), "reader", EmptyPayload))
        /\ \E parts \in BoundaryPartLists, closed \in BOOLEAN :
              streamBody \in Chunkings(SeparatedBody(DeclaredSeparator(d), parts, closed),
                                       MaxChunks)

SpecBoundary == InitBoundary /\ [][NextStream]_vars

(***************************************************************************)
(* Bodies whose segments, the texts between two boundaries, are parts with *)
(* a header, parts without one, blank, or parts whose body is followed by  *)
(* a second header separator.                                              *)
(***************************************************************************)
SegmentKinds == {"part", "bare", "blank", "twice"}

SegmentText(kind) ==
    CASE kind = "part" ->
            <<"\r", "\n", "Content-Type: application/json">> \o HEADER_SEPARATOR
                \o JsonBytes("last") \o <<"\r", "\n">>
      [] kind = "bare" -> <<"\r", "\n">> \o JsonBytes("last") \o <<"\r", "\n">>
      [] kind = "blank" -> <<"\r", "\n">>
      [] kind = "twice" ->
            <<"\r", "\n", "Content-Type: application/json">> \o HEADER_SEPARATOR
                \o JsonBytes("flat") \o HEADER_SEPARATOR

SegmentLists == UNION {[1..n -> SegmentKinds] : n \in 1..MaxParts}

\* Each segment between two boundaries, and the closing "--" or not.
RECURSIVE SegmentedBody(_, _)
SegmentedBody(segments, closed) ==
    IF segments = <<>> THEN Boundary \o (IF closed THEN <<"-", "-">> ELSE <<>>)
    ELSE Boundary \o SegmentText(Head(segments))
             \o SegmentedBody(Tail(segments), closed)

InitParts ==
    /\ StreamStarts(StreamResponse)
    /\ \E segments \in SegmentLists, closed \in BOOLEAN :
          streamBody \in Chunkings(SegmentedBody(segments, closed), MaxChunks)

SpecParts == InitParts /\ [][NextStream]_vars

(***************************************************************************)
(* Bodies that go on after their closing delimiter: blanks, or a further   *)
(* part between boundaries.                                                *)
(***************************************************************************)
Epilogues ==
    {<<"\r", "\n">>, <<" ", "\r", "\n">>,
     <<"\r", "\n">> \o PartBytes("flat") \o Boundary,
     PartBytes("flat") \o Boundary \o <<"-", "-">>}

InitEpilogue ==
    /\ StreamStarts(StreamResponse)
    /\ \E parts \in BoundaryPartLists, epilogue \in Epilogues :
          streamBody \in Chunkings(BodyBytes(parts, TRUE) \o epilogue, MaxChunks)

SpecEpilogue == InitEpilogue /\ [][NextStream]_vars

(***************************************************************************)
(* Streams over bodies that deliver their chunks and then end, with parts  *)
(* that are JSON or not.                                                   *)
(***************************************************************************)
FinitePartNames == {"first", "last", "html"}

FinitePartLists == UNION {[1..n -> FinitePartNames] : n \in 1..MaxParts}

InitFinite ==
    /\ StreamStarts(StreamResponse)
    /\ \E parts \in FinitePartLists, closed \in BOOLEAN :
          streamBody \in Chunkings(BodyBytes(parts, closed), MaxChunks)

SpecFinite == InitFinite /\ [][NextStream]_vars


(***************************************************************************)
(* Two requestStream() calls have resolved, each with the iterator of its  *)
(* own multipart response, and their consumers take turns.  Each call of   *)
(* requestStream() declares its own combinedData and responseExtensions,   *)
(* its iterator its own streamHasNext, and its readStreamChunk its own     *)
(* buffer.  The bodies deliver a part, or the terminating boundary, in     *)
(* each chunk.                                                             *)
(***************************************************************************)
StreamIds == {1, 2}

TwoStreamPartNames == {"first", "more", "last"}

TwoStreamPartLists == UNION {[1..n -> TwoStreamPartNames] : n \in 1..MaxParts}

RECURSIVE PartChunks(_, _)
PartChunks(parts, closed) ==
    IF parts = <<>> THEN (IF closed THEN <<Boundary \o <<"-", "-">>>> ELSE <<>>)
    ELSE <<PartBytes(Head(parts))>> \o PartChunks(Tail(parts), closed)

\* The stream a call starts: its body, and the state of its closures.
NewStream(body) ==
    [body |-> body, chunksRead |-> 0, buffer |-> <<>>, iter |-> "ready",
     snapshots |-> <<>>, combinedData |-> EmptyObject,
     responseExtensions |-> "undefined", streamHasNext |-> TRUE]

\* The stream whose combinedData, responseExtensions and streamHasNext the
\* iterator of stream s reads and writes: the call of requestStream() that
\* made the stream declares them, one set for each stream.
AccumulatorShared(s) == 1

AccumulatorOf(s) == s

AccumulatorIn(s) ==
    [combinedData |-> streams[AccumulatorOf(s)].combinedData,
     responseExtensions |-> streams[AccumulatorOf(s)].responseExtensions,
     streamHasNext |-> streams[AccumulatorOf(s)].streamHasNext]

\* The streams after a step of stream s that leaves it as the record moved
\* and its accumulator as acc.
StreamsAfter(s, moved, acc) ==
    [t \in DOMAIN streams |->
        LET stepped == IF t = s THEN moved ELSE streams[t]
        IN  IF t = AccumulatorOf(s)
            THEN [stepped EXCEPT !.combinedData = acc.combinedData,
                                 !.responseExtensions = acc.responseExtensions,
                                 !.streamHasNext = acc.streamHasNext]
            ELSE stepped]

InitTwoStreams ==
    /\ RequestStreamResolves(StreamResponse)
    /\ streamBody = <<>>
    /\ streams \in [StreamIds ->
                       {NewStream(PartChunks(parts, closed)) :
                           parts \in TwoStreamPartLists, closed \in BOOLEAN}]

\* The consumer of stream s asks its iterator for the next value.
StreamIteratorNext(s) ==
    /\ streams[s].iter \in {"ready", "yielded", "failed"}
    /\ streams' = [streams EXCEPT ![s].iter =
                       IF streams[s].iter = "failed" THEN "done" ELSE "reading"]
    /\ UNCHANGED <<clientVars, iter, snapshots, parserVars, reader, lift>>

\* The body of stream s delivers a chunk.
StreamChunkArrives(s) ==
    /\ streams[s].iter = "reading"
    /\ streams[s].chunksRead < Len(streams[s].body)
    /\ LET read == ReadStreamChunk(streams[s].buffer,
                       DecodeChunk(result.iterator.response.body,
                                   streams[s].body[streams[s].chunksRead + 1]),
                       ResponseBoundary(result.iterator.response))
           step == ProcessBatch(AccumulatorIn(s), read.chunkBodies)
           taken == [streams[s] EXCEPT !.chunksRead = @ + 1,
                                       !.buffer = read.buffer]
       IN  IF Len(read.chunkBodies) > 0
           THEN IF step.failure.failed
                THEN streams' = StreamsAfter(s,
                         [taken EXCEPT !.iter = "failed",
                              !.snapshots = Append(@,
                                  ErrorSnapshot(step.acc,
                                      result.iterator.response.status,
                                      step.failure))],
                         step.acc)
                ELSE streams' = StreamsAfter(s,
                         [taken EXCEPT !.iter = "yielded",
                              !.snapshots = Append(@, StreamSnapshot(step.acc))],
                         step.acc)
           ELSE streams' = StreamsAfter(s, taken, AccumulatorIn(s))
    /\ UNCHANGED <<clientVars, iter, snapshots, parserVars, reader, lift>>

\* The body of stream s ends.
StreamBodyEnds(s) ==
    /\ streams[s].iter = "reading"
    /\ streams[s].chunksRead = Len(streams[s].body)
    /\ streams' = [streams EXCEPT ![s] =
           IF AccumulatorIn(s).streamHasNext
           THEN [@ EXCEPT !.iter = "failed",
                     !.snapshots = Append(@,
                         ErrorSnapshot(AccumulatorIn(s),
                             result.iterator.response.status,
                             Failure(TerminatedMessage, <<>>)))]
           ELSE [@ EXCEPT !.iter = "done"]]
    /\ UNCHANGED <<clientVars, iter, snapshots, parserVars, reader, lift>>

NextTwoStreams ==
    \E s \in StreamIds :
        \/ StreamIteratorNext(s)
        \/ StreamChunkArrives(s)
        \/ StreamBodyEnds(s)

SpecTwoStreams == InitTwoStreams /\ [][NextTwoStreams]_vars

(***************************************************************************)
(* What the properties below speak of.                                     *)
(***************************************************************************)
\* A call has been made.
Called == call.entry # "none"

\* The retry budget the call is entitled to: its own retries when it gives
\* one, else the client's.
Budget ==
    IF call.options.retries.has THEN call.options.retries.val ELSE config.retries

Last(seq) == seq[Len(seq)]

\* The message the call's result carries: of its rejection, of the errors
\* block of its response object, or of the errors block of its iterator.
SurfacedMessage ==
    IF result.kind = "rejected" THEN result.message
    ELSE IF result.value.errors.present THEN result.value.errors.message
    ELSE result.iterator.errors.message

AllThrew == \A i \in 1..Len(settled) : settled[i].threw

AllRetriableStatus ==
    \A i \in 1..Len(settled) :
        ~settled[i].threw /\ settled[i].response.status \in {429, 503}

RetryEvents == SelectSeq(logged, LAMBDA e : e.type = "HTTP-Retry")

AttemptedPrefix(r) ==
    <<CLIENT, ": ", "Attempted maximum number of ", ToString(r),
      " network retries. Last message - ">>

(***************************************************************************)
(* C1: for every call whose effective retry budget r is in [0,3] and every *)
(* sequence of transport outcomes, the number of transport calls made is   *)
(* at most 1 + r.                                                          *)
(***************************************************************************)
C1_AttemptsAtMostOnePlusRetries ==
    (Called /\ Budget \in MIN_RETRIES..MAX_RETRIES) =>
        Len(fetchCalls) <= 1 + Budget

\* A call with budget 3 has made its fourth transport call, after a throw, a
\* 429 and a 503.
C1_Witness ==
    /\ Called /\ Budget = 3 /\ Len(fetchCalls) = 4 /\ pc = "settled"
    /\ \E i, j, k \in 1..3 :
          /\ settled[i].threw
          /\ ~settled[j].threw /\ settled[j].response.status = 429
          /\ ~settled[k].threw /\ settled[k].response.status = 503

(***************************************************************************)
(* C2: when every transport call throws and the budget is r, exactly r + 1 *)
(* transport calls are made and the executor fails (fetch rejects); the    *)
(* message starts with "<label>: Attempted maximum number of r network     *)
(* retries. Last message - " when r >= 1 and is "<label>: <original>"      *)
(* without that wording when r = 0.                                        *)
(***************************************************************************)
C2_AllThrowsExhaust ==
    (pc = "settled" /\ Len(settled) > 0 /\ AllThrew) =>
        /\ Len(fetchCalls) = Budget + 1
        /\ call.entry = "fetch" => result.kind = "rejected"
        /\ IF Budget >= 1
           THEN SurfacedMessage = AttemptedPrefix(Budget) \o AbortMessage
           ELSE SurfacedMessage = <<CLIENT, ": ">> \o AbortMessage

\* fetch() with budget 2 rejected after three throws.
C2_Witness ==
    /\ pc = "settled" /\ call.entry = "fetch" /\ Budget = 2
    /\ Len(settled) = 3 /\ AllThrew /\ result.kind = "rejected"

(***************************************************************************)
(* C3: when every transport call returns 429 or 503 and the budget is r,   *)
(* exactly r + 1 transport calls are made and the executor returns the     *)
(* last response without throwing; request() then resolves to an errors    *)
(* object with networkStatusCode = that status, message                    *)
(* "<label>: <statusText>" and the response attached.                      *)
(***************************************************************************)
C3_RetriableStatusExhausts ==
    (pc = "settled" /\ Len(settled) > 0 /\ AllRetriableStatus) =>
        LET last == Last(settled).response
        IN  /\ Len(fetchCalls) = Budget + 1
            /\ call.entry = "fetch" => result = ResolvedResponse(last)
            /\ call.entry = "request" =>
                  /\ result.kind = "resolved"
                  /\ result.value.errors =
                        Errors(Some(last.status),
                               <<CLIENT, ": ", StatusText(last.status)>>,
                               "undefined", last)

\* request() with budget 1 resolved after a 429 and a 503.
C3_Witness ==
    /\ pc = "settled" /\ call.entry = "request" /\ Budget = 1
    /\ Len(settled) = 2 /\ AllRetriableStatus
    /\ settled[1].response.status = 429 /\ settled[2].response.status = 503
    /\ result.value.errors.networkStatusCode = Some(503)

(***************************************************************************)
(* C4: the executor stops at the first attempt that ends with a response   *)
(* whose status is neither 429 nor 503 (ok or not): no transport call      *)
(* follows it, whatever budget remains and whatever the earlier attempts   *)
(* ended with, the number of transport calls is the index of that attempt, *)
(* and fetch() resolves with exactly that response.                        *)
(***************************************************************************)
C4_StopsAtFirstTerminalResponse ==
    \A i \in 1..Len(settled) :
        (~settled[i].threw /\ settled[i].response.status \notin {429, 503}) =>
            /\ i = Len(settled)
            /\ Len(fetchCalls) = i
            /\ pc = "settled"
            /\ call.entry = "fetch" => result = ResolvedResponse(settled[i].response)

\* fetch() with budget 3 resolved with the 500 of its third attempt, which
\* followed a throw and a 429.
C4_Witness ==
    /\ pc = "settled" /\ call.entry = "fetch" /\ Budget = 3
    /\ Len(settled) = 3 /\ Len(fetchCalls) = 3
    /\ settled[1].threw
    /\ ~settled[2].threw /\ settled[2].response.status = 429
    /\ ~settled[3].threw /\ settled[3].response.status = 500
    /\ result.response.status = 500

\* A retries value that is given and lies outside [0,3].
InvalidValue(retries) ==
    retries.has /\ (retries.val < 0 \/ retries.val > 3)

\* A client is not constructed with such a value: createGraphQLClient throws
\* with the message and nothing is ever called.
ConstructionRefused ==
    InvalidValue(clientOptions.retries) =>
        /\ pc \in {"new", "threw"}
        /\ ~Called /\ fetchCalls = <<>>
        /\ pc = "threw" =>
              result = Rejected(RetriesInvalidMessage(clientOptions.retries.val))

(***************************************************************************)
(* C5, as claimed: for every retries value outside [0,3], given at         *)
(* construction or to a call of fetch, request or requestStream, no        *)
(* transport call is made: construction throws, and the call fails with    *)
(* the message "<label>: The provided "retries" value (<n>) is invalid -   *)
(* it cannot be less than 0 or greater than 3".                            *)
(***************************************************************************)
C5_Original ==
    /\ ConstructionRefused
    /\ (Called /\ InvalidValue(call.options.retries)) =>
          /\ fetchCalls = <<>>
          /\ pc = "settled"
          /\ SurfacedMessage = RetriesInvalidMessage(call.options.retries.val)

(***************************************************************************)
(* C5, amended: for every retries value outside [0,3] no transport call is *)
(* made: construction throws with the message, a call that its entry       *)
(* point's @defer guard lets through ends with the message (fetch rejects  *)
(* with it, request and requestStream report it), and a call the guard     *)
(* rejects ends with the guard's message.                                  *)
(***************************************************************************)
C5_InvalidRetriesNeverReachTransport ==
    /\ ConstructionRefused
    /\ (Called /\ InvalidValue(call.options.retries)) =>
          /\ fetchCalls = <<>>
          /\ pc = "settled"
          /\ SurfacedMessage =
                IF GuardRejects(call.entry, call.operation)
                THEN GuardMessage(call.entry)
                ELSE RetriesInvalidMessage(call.options.retries.val)
          /\ call.entry = "fetch" => result.kind = "rejected"

\* fetch() on a client whose retries is 3 was given retries 4 and rejected.
C5_Witness ==
    /\ pc = "settled" /\ call.entry = "fetch" /\ config.retries = 3
    /\ call.options.retries = Some(4)
    /\ result = Rejected(RetriesInvalidMessage(4))
    /\ fetchCalls = <<>>

(***************************************************************************)
(* C6: request() fails for every operation that matches /@\s*defer\b/i and *)
(* requestStream() fails for every operation that does not, and both fail  *)
(* before any transport call.                                              *)
(***************************************************************************)
C6_DeferGuardsPartition ==
    /\ (call.entry = "request" /\ DeferTest(call.operation)) =>
          /\ pc = "settled" /\ fetchCalls = <<>>
          /\ result = Rejected(DeferGuardRequestMessage)
    /\ (call.entry = "requestStream" /\ ~DeferTest(call.operation)) =>
          /\ pc = "settled" /\ fetchCalls = <<>>
          /\ result = Rejected(DeferGuardStreamMessage)

\* requestStream() was rejected for an operation in which "defer" runs on
\* into a word: no word boundary, no match.
C6_Witness ==
    /\ call.entry = "requestStream"
    /\ call.operation = <<"{", "@", "defer", "x", "}">>
    /\ result.kind = "rejected" /\ fetchCalls = <<>>

C8_RetryEventsNumberTheAttempts ==
    clientOptions.logger =>
        /\ \A k \in 1..Len(RetryEvents) :
              /\ k <= Len(settled)
              /\ RetryEvents[k] =
                    RetryLog(fetchCalls[1],
                             IF settled[k].threw THEN NoResponse
                             ELSE settled[k].response,
                             k, Budget)
        /\ \A i \in 1..Len(fetchCalls) : fetchCalls[i] = fetchCalls[1]
        /\ (pc \in {"transport", "settled"} /\ Len(fetchCalls) > 0) =>
              Len(RetryEvents) = Len(fetchCalls) - 1
        /\ (pc = "settled" /\ Len(settled) > 0 /\ AllThrew) =>
              (logged = RetryEvents /\ Len(logged) = Budget)

\* The logger of a call with budget 3 received three retry events: for a
\* throw, for a 503 and for a 429.
C8_Witness ==
    /\ clientOptions.logger /\ Budget = 3 /\ Len(RetryEvents) = 3
    /\ RetryEvents[1].response = NoResponse /\ RetryEvents[1].retryAttempt = 1
    /\ RetryEvents[2].response.status = 503 /\ RetryEvents[2].retryAttempt = 2
    /\ RetryEvents[3].response.status = 429 /\ RetryEvents[3].retryAttempt = 3

(***************************************************************************)
(* C9: the attempts of a request are sequential with a fixed backoff:      *)
(* between two consecutive transport calls the earlier one settles, then   *)
(* exactly one sleep of RETRY_WAIT_TIME (1000 ms, for every attempt) is    *)
(* started and ends before the next call; no sleep is started after the    *)
(* last attempt, so the sleeps are one fewer than the transport calls.     *)
(***************************************************************************)
C9_SequentialFixedBackoff ==
    /\ \A i \in 1..Len(hist) :
          /\ hist[i] = "call" =>
                (i = 1 \/ (i > 3 /\ hist[i - 1] = "wake" /\ hist[i - 2] = "sleep"
                                 /\ hist[i - 3] = "settle"))
          /\ hist[i] = "settle" => (i > 1 /\ hist[i - 1] = "call")
          /\ hist[i] = "sleep" => (i > 1 /\ hist[i - 1] = "settle")
          /\ hist[i] = "wake" => (i > 1 /\ hist[i - 1] = "sleep")
    /\ \A i \in 1..Len(timers) : timers[i] = 1000
    /\ Len(timers) = Len(SelectSeq(hist, LAMBDA h : h = "sleep"))
    /\ Len(fetchCalls) = Len(SelectSeq(hist, LAMBDA h : h = "call"))
    /\ pc = "settled" /\ Len(fetchCalls) > 0 =>
          (Last(hist) = "settle" /\ Len(timers) = Len(fetchCalls) - 1)

\* A call that made four transport calls settled after three sleeps.
C9_Witness ==
    /\ pc = "settled" /\ Len(fetchCalls) = 4
    /\ timers = <<1000, 1000, 1000>>

(***************************************************************************)
(* C10: the retry budget a call uses is its own retries option whenever it *)
(* gives one (the value 0 included, which disables retries even if the     *)
(* client's default is larger) and the client's retries otherwise; the     *)
(* same rule holds for the url and for each header name.                   *)
(***************************************************************************)
C10_PerCallOptionsWin ==
    Len(fetchCalls) > 0 =>
        LET options == call.options
            sent == fetchCalls[1]
        IN  /\ frame.maxRetries =
                  (IF options.retries.has THEN options.retries.val ELSE config.retries)
            /\ (pc = "settled" /\ \A i \in 1..Len(settled) : Retriable(settled[i])) =>
                  Len(fetchCalls) =
                      1 + (IF options.retries.has THEN options.retries.val
                           ELSE config.retries)
            /\ sent.url = (IF options.url.has THEN options.url.val ELSE config.url)
            /\ DOMAIN sent.headers =
                  (DOMAIN config.headers) \cup
                  (IF options.headers.has THEN DOMAIN options.headers.val ELSE {})
            /\ \A n \in DOMAIN sent.headers :
                  LET value == IF options.headers.has /\ n \in DOMAIN options.headers.val
                               THEN options.headers.val[n]
                               ELSE config.headers[n]
                  IN  sent.headers[n] =
                          IF value.list THEN Join(value.items, ", ") ELSE value.items

\* A call that gave retries 0 to a client whose retries is 3 settled after
\* one transport call that threw.
C10_Witness ==
    /\ pc = "settled" /\ config.retries = 3 /\ call.options.retries = Some(0)
    /\ Len(fetchCalls) = 1 /\ Len(settled) = 1 /\ settled[1].threw

(***************************************************************************)
(* What the façade's properties speak of.                                  *)
(***************************************************************************)
\* The call has settled on a response the executor returned.
SettledOnResponse(entry) ==
    /\ pc = "settled" /\ call.entry = entry
    /\ settled # <<>> /\ ~Last(settled).threw

\* The response object request() resolves with for a failure of the response.
ResponseFailure(response, message) ==
    ResolvedValue(ClientResponse("undefined", "undefined",
        Errors(Some(response.status), message, "undefined", response)))

UnexpectedTypeMessage(response) ==
    <<CLIENT, ": ", "Response returned unexpected Content-Type:", " ">>
        \o ContentTypeOf(response)

(***************************************************************************)
(* C11: request() classifies a returned response in a fixed order: a       *)
(* response that is not ok yields an errors object with networkStatusCode  *)
(* = status and message "<label>: <statusText>", whatever its content type *)
(* and without its body being parsed; an ok response whose content type    *)
(* does not include application/json (multipart/mixed included) yields the *)
(* unexpected Content-Type error; only an ok JSON response has its body    *)
(* parsed.                                                                 *)
(***************************************************************************)
C11_RequestClassifiesInOrder ==
    SettledOnResponse("request") =>
        LET response == Last(settled).response
        IN  IF ~response.ok
            THEN result = ResponseFailure(response,
                              <<CLIENT, ": ", response.statusText>>)
            ELSE IF ~Includes(ContentTypeOf(response), "application/json")
            THEN result = ResponseFailure(response, UnexpectedTypeMessage(response))
            ELSE IF response.payload.valid
            THEN result = ResolvedValue(ProcessedJson(response))
            ELSE result = Rejected(JsonSyntaxError)

\* request() got a 400 whose content type is JSON and whose body is not: it
\* resolved with the status text, the body unread.
C11_Witness ==
    /\ SettledOnResponse("request")
    /\ Last(settled).response.status = 400
    /\ Includes(ContentTypeOf(Last(settled).response), "application/json")
    /\ ~Last(settled).response.payload.valid
    /\ result.kind = "resolved"
    /\ result.value.errors.message = <<CLIENT, ": ", "Bad request">>

\* request() has parsed the body of an ok JSON response.
ParsedJson ==
    /\ SettledOnResponse("request")
    /\ Last(settled).response.ok
    /\ Includes(ContentTypeOf(Last(settled).response), "application/json")
    /\ Last(settled).response.payload.valid

\* The message and graphQLErrors of the errors block of a payload.
PayloadErrors(response, hasErrors) ==
    IF hasErrors
    THEN Errors(Some(response.status), <<CLIENT, ": ">> \o GQL_API_ERROR,
                response.payload.errors, response)
    ELSE Errors(Some(response.status), <<CLIENT, ": ">> \o NO_DATA_OR_ERRORS_ERROR,
                "undefined", response)

(***************************************************************************)
(* C12, as claimed: for an ok JSON response the result of request() has an *)
(* errors block iff the payload has an errors field or has no data field;  *)
(* the message is the GraphQL-API-error text, with graphQLErrors, when the *)
(* payload has errors, and the no-data-or-errors text otherwise; data and  *)
(* extensions are in the result whenever they are present in the payload.  *)
(***************************************************************************)
C12_Original ==
    ParsedJson =>
        LET response == Last(settled).response
            p == response.payload
        IN  /\ result.kind = "resolved"
            /\ result.value.errors.present <=>
                  (p.errors # "undefined" \/ p.data = "undefined")
            /\ result.value.errors.present =>
                  result.value.errors = PayloadErrors(response, p.errors # "undefined")
            /\ result.value.data = p.data
            /\ result.value.extensions = p.extensions

(***************************************************************************)
(* C12, amended: for an ok JSON response the result of request() has an    *)
(* errors block iff the payload's errors is truthy or its data is falsy    *)
(* (absent or null); the message is the GraphQL-API-error text, with       *)
(* graphQLErrors, when the payload has errors, and the no-data-or-errors   *)
(* text otherwise; data and extensions are in the result when they are     *)
(* present, not null and not an object without keys, also next to an       *)
(* errors block.                                                           *)
(***************************************************************************)
C12_ErrorsBlockAndFields ==
    ParsedJson =>
        LET response == Last(settled).response
            p == response.payload
            kept(value) == IF value \in {"undefined", "null", "{}"}
                           THEN "undefined" ELSE value
        IN  /\ result.kind = "resolved"
            /\ result.value.errors.present <=>
                  (p.errors # "undefined" \/ p.data \in {"undefined", "null"})
            /\ result.value.errors =
                  IF p.errors # "undefined" THEN PayloadErrors(response, TRUE)
                  ELSE IF p.data \in {"undefined", "null"}
                  THEN PayloadErrors(response, FALSE)
                  ELSE NoErrors
            /\ result.value.data = kept(p.data)
            /\ result.value.extensions = kept(p.extensions)

\* A payload with data and errors: the result has both.
C12_Witness ==
    /\ ParsedJson
    /\ Last(settled).response.payload.data = "data"
    /\ Last(settled).response.payload.errors = "errors"
    /\ result.value.data = "data"
    /\ result.value.errors.present
    /\ result.value.errors.graphQLErrors = "errors"

\* requestStream() passed its guard and the call did not reach the multipart
\* path: the transport failed for good, or the response is not ok or is not
\* multipart/mixed.
OffMultipartPath ==
    /\ pc = "settled" /\ call.entry = "requestStream"
    /\ ~GuardRejects(call.entry, call.operation)
    /\ settled # <<>>
    /\ \/ Last(settled).threw
       \/ ~Last(settled).response.ok
       \/ ~Includes(ContentTypeOf(Last(settled).response), "multipart/mixed")

(***************************************************************************)
(* C13, as claimed: a requestStream() call that passes the @defer guard    *)
(* and does not reach the multipart path (response not ok, content type    *)
(* neither JSON nor multipart/mixed, content type JSON, transport failed   *)
(* after the retry budget) yields exactly one snapshot, with hasNext =     *)
(* false, and then ends; the not-ok and content-type snapshots carry       *)
(* networkStatusCode = status, the transport-failure snapshot only a       *)
(* message.                                                                *)
(***************************************************************************)
C13_Original ==
    OffMultipartPath =>
        /\ result.kind = "resolved"
        /\ iter # "threw"
        /\ iter = "ready" => snapshots = <<>>
        /\ iter \in {"yielded", "done"} =>
              /\ Len(snapshots) = 1
              /\ ~snapshots[1].hasNext
              /\ Last(settled).threw =>
                    snapshots[1] =
                        Snapshot(ClientResponse("undefined", "undefined",
                            Errors(None, SurfacedMessage, "undefined", NoResponse)),
                            FALSE)
              /\ (~Last(settled).threw /\ ~Last(settled).response.ok) =>
                    snapshots[1] =
                        Snapshot(ClientResponse("undefined", "undefined",
                            Errors(Some(Last(settled).response.status),
                                   <<CLIENT, ": ", Last(settled).response.statusText>>,
                                   "undefined", NoResponse)),
                            FALSE)
              /\ (/\ ~Last(settled).threw /\ Last(settled).response.ok
                  /\ ~Includes(ContentTypeOf(Last(settled).response),
                               "application/json")) =>
                    snapshots[1] =
                        Snapshot(ClientResponse("undefined", "undefined",
                            Errors(Some(Last(settled).response.status),
                                   UnexpectedTypeMessage(Last(settled).response),
                                   "undefined", NoResponse)),
                            FALSE)

\* A parsing entry point was given retries outside [0,3] in the call.
InvalidRetriesCall(entry) ==
    /\ call.entry = entry
    /\ InvalidValue(call.options.retries)

\* The errors block that carries the retries-validation message only.
RetriesErrors ==
    Errors(None, RetriesInvalidMessage(call.options.retries.val), "undefined",
           NoResponse)

\* request() resolved to a response object with the retries message, and
\* requestStream() to a stream whose one snapshot carries it.
InvalidRetriesReported ==
    /\ pc = "settled" /\ fetchCalls = <<>>
    /\ result.kind = "resolved"
    /\ call.entry = "request" =>
          result.value = ClientResponse("undefined", "undefined", RetriesErrors)
    /\ call.entry = "requestStream" =>
          /\ result.iterator.kind = "error"
          /\ iter # "threw"
          /\ iter = "ready" => snapshots = <<>>
          /\ iter \in {"yielded", "done"} =>
                snapshots = <<Snapshot(ClientResponse("undefined", "undefined",
                                                      RetriesErrors), FALSE)>>

(***************************************************************************)
(* C14, as claimed: a per-call retries value outside [0,3] is reported,    *)
(* not thrown, by request() and requestStream(): request() resolves to a   *)
(* response object whose errors.message is the retries-validation message, *)
(* requestStream() to a stream whose first and only snapshot carries that  *)
(* message with hasNext = false; the returned promise does not reject.     *)
(***************************************************************************)
C14_Original ==
    (InvalidRetriesCall("request") \/ InvalidRetriesCall("requestStream")) =>
        InvalidRetriesReported

(***************************************************************************)
(* C14, amended: for a call whose operation passes the entry point's       *)
(* @defer guard, a per-call retries value outside [0,3] is reported, not   *)
(* thrown: request() resolves to a response object whose errors.message is *)
(* the retries-validation message, requestStream() to a stream whose first *)
(* and only snapshot carries that message with hasNext = false; a call the *)
(* guard rejects is rejected with the guard's message.                     *)
(***************************************************************************)
C14_InvalidRetriesReportedAfterGuard ==
    (InvalidRetriesCall("request") \/ InvalidRetriesCall("requestStream")) =>
        IF GuardRejects(call.entry, call.operation)
        THEN result = Rejected(GuardMessage(call.entry))
        ELSE InvalidRetriesReported

\* request() was given retries 4 for an operation without @defer and
\* resolved with the message in its errors block.
C14_Witness ==
    /\ InvalidRetriesCall("request") /\ call.options.retries = Some(4)
    /\ ~DeferTest(call.operation)
    /\ pc = "settled" /\ result.kind = "resolved"
    /\ result.value.errors.message = RetriesInvalidMessage(4)
    /\ fetchCalls = <<>>

(***************************************************************************)
(* C15, as claimed: an invalid retries value given to request() surfaces   *)
(* as a throw of request(): the call fails instead of returning a result   *)
(* object; given to requestStream() it surfaces as the first-yielded error *)
(* snapshot.                                                               *)
(***************************************************************************)
C15_Original ==
    /\ (InvalidRetriesCall("request") /\ ~DeferTest(call.operation)) =>
          result = Rejected(RetriesInvalidMessage(call.options.retries.val))
    /\ (InvalidRetriesCall("requestStream") /\ DeferTest(call.operation)) =>
          /\ result.kind = "resolved"
          /\ snapshots # <<>> => snapshots[1].errors = RetriesErrors

(***************************************************************************)
(* C15, amended: an invalid retries value given to request() with an       *)
(* operation that passes the guard surfaces in the errors block of the     *)
(* result object request() resolves with, which has no networkStatusCode,  *)
(* data or extensions: request() neither throws nor rejects; given to      *)
(* requestStream() it surfaces as the first-yielded error snapshot; only   *)
(* fetch() rejects with it.                                                *)
(***************************************************************************)
C15_InvalidRetriesSurface ==
    (Called /\ InvalidValue(call.options.retries)
            /\ ~GuardRejects(call.entry, call.operation)) =>
        CASE call.entry = "fetch" ->
                result = Rejected(RetriesInvalidMessage(call.options.retries.val))
          [] call.entry = "request" ->
                /\ result.kind = "resolved"
                /\ result.value.errors = RetriesErrors
                /\ result.value.data = "undefined"
                /\ result.value.extensions = "undefined"
                /\ result.iterator.kind = "none"
          [] call.entry = "requestStream" ->
                /\ result.kind = "resolved"
                /\ result.iterator.kind = "error"
                /\ snapshots # <<>> =>
                      /\ snapshots[1].errors = RetriesErrors
                      /\ ~snapshots[1].hasNext

\* requestStream() was given retries -1 for a deferred operation, and its
\* iterator has yielded the error snapshot.
C15_Witness ==
    /\ InvalidRetriesCall("requestStream") /\ call.options.retries = Some(-1)
    /\ DeferTest(call.operation)
    /\ iter = "yielded"
    /\ Len(snapshots) = 1
    /\ snapshots[1].errors.message = RetriesInvalidMessage(-1)

(***************************************************************************)
(* What the properties of the multipart stream speak of.                   *)
(***************************************************************************)
\* The text readStreamChunk has been given so far: the chunks read, each
\* decoded by itself.
RECURSIVE DecodedUpTo(_)
DecodedUpTo(n) ==
    IF n = 0 THEN <<>> ELSE DecodedUpTo(n - 1) \o Decode(streamBody[n])

Received == DecodedUpTo(chunksRead)

\* The places of the boundary in a text, in order.
RECURSIVE Ascending(_)
Ascending(places) ==
    IF places = {} THEN <<>>
    ELSE LET least == CHOOSE i \in places : \A j \in places : i <= j
         IN  <<least>> \o Ascending(places \ {least})

\* The part bodies a text holds: for each two boundaries that follow each
\* other, the text between them, if it is not blank, from the end of its
\* header separator on, trimmed.
RECURSIVE PartsBetween(_, _)
PartsBetween(text, places) ==
    IF Len(places) < 2 THEN <<>>
    ELSE LET between == SubSeq(text, places[1] + Len(Boundary) + 1, places[2])
             separator == IndexOf(between, HEADER_SEPARATOR)
         IN  (IF Trim(between) = <<>> THEN <<>>
              ELSE <<Trim(SubSeq(between, separator + Len(HEADER_SEPARATOR) + 1,
                                 Len(between)))>>)
                 \o PartsBetween(text, Tail(places))

CompleteParts(text) == PartsBetween(text, Ascending(Occurrences(text, Boundary)))

\* What follows the last boundary of a text.
AfterLastBoundary(text) ==
    SubSeq(text, LastIndexOf(text, Boundary) + Len(Boundary) + 1, Len(text))

\* The text is the terminating "--", with blanks around it or not, and then
\* the rest.
AfterSentinel(text, rest) ==
    \E n \in 0..Len(text) :
        /\ Trim(SubSeq(text, 1, n)) = <<"-", "-">>
        /\ SubSeq(text, n + 1, Len(text)) = rest

RECURSIVE StreamRun(_, _, _, _, _)
StreamRun(chunks, buf, acc, yielded, status) ==
    IF chunks = <<>>
    THEN IF acc.streamHasNext
         THEN Append(yielded, ErrorSnapshot(acc, status, Failure(TerminatedMessage, <<>>)))
         ELSE yielded
    ELSE LET read == ReadStreamChunk(buf, Decode(Head(chunks)), Boundary)
             step == ProcessBatch(acc, read.chunkBodies)
         IN  IF Len(read.chunkBodies) = 0
             THEN StreamRun(Tail(chunks), read.buffer, acc, yielded, status)
             ELSE IF step.failure.failed
             THEN Append(yielded, ErrorSnapshot(step.acc, status, step.failure))
             ELSE StreamRun(Tail(chunks), read.buffer, step.acc,
                            Append(yielded, StreamSnapshot(step.acc)), status)

NewAccumulator ==
    [combinedData |-> EmptyObject, responseExtensions |-> "undefined",
     streamHasNext |-> TRUE]

\* The snapshots for the same bytes delivered as one chunk.
WholeBodyRun ==
    StreamRun(<<Flat(streamBody)>>, <<>>, NewAccumulator, <<>>,
              result.iterator.response.status)

\* The parts of the whole body, and its payloads.
BodyParts == CompleteParts(Decode(Flat(streamBody)))

BodyPayloads == Map(BodyParts, JsonParse)

\* No part of the body carries errors: each is JSON without a non-empty
\* errors array.
ErrorFreeBody ==
    \A i \in 1..Len(BodyPayloads) :
        /\ BodyPayloads[i].valid
        /\ ~(BodyPayloads[i].errors.has /\ Len(BodyPayloads[i].errors.val) > 0)

\* The data, extensions and hasNext of a snapshot.
Content(snapshot) ==
    [data |-> snapshot.data, extensions |-> snapshot.extensions,
     hasNext |-> snapshot.hasNext]

\* The parts of the whole body in the groups in which the batches completed
\* them.
RECURSIVE Regroup(_, _)
Regroup(parts, groups) ==
    IF groups = <<>> THEN <<>>
    ELSE <<SubSeq(parts, 1, Len(Head(groups)))>>
             \o Regroup(SubSeq(parts, Len(Head(groups)) + 1, Len(parts)), Tail(groups))

\* The snapshots the iterator yields for these batches, one after the other.
RECURSIVE BatchRun(_, _, _, _)
BatchRun(groups, acc, yielded, status) ==
    IF groups = <<>> THEN yielded
    ELSE LET step == ProcessBatch(acc, Head(groups))
         IN  IF step.failure.failed
             THEN Append(yielded, ErrorSnapshot(step.acc, status, step.failure))
             ELSE BatchRun(Tail(groups), step.acc,
                           Append(yielded, StreamSnapshot(step.acc)), status)

(***************************************************************************)
(* C17, as claimed: the result of a multipart stream does not depend on    *)
(* how the bytes of the body are cut into chunks: for every body whose     *)
(* parts carry no errors, the last snapshot of a stream read to its end    *)
(* has the data, extensions and hasNext of the last snapshot of the same   *)
(* bytes delivered as one chunk, and the snapshots for the batches are,    *)
(* one by one, those of the parts of the whole body completed in the same  *)
(* groups.                                                                 *)
(***************************************************************************)
C17_Original ==
    (iter = "done" /\ ErrorFreeBody) =>
        /\ Content(Last(snapshots)) = Content(Last(WholeBodyRun))
        /\ SubSeq(snapshots, 1, Len(batches)) =
               BatchRun(Regroup(BodyParts, batches), NewAccumulator, <<>>,
                        result.iterator.response.status)

\* The combined data of these part bodies: the merge, in order, of the data
\* of their payloads.
MergedData(parts) ==
    buildCombinedDataObject(
        <<EmptyObject>> \o Map(parts, LAMBDA value : PayloadData(JsonParse(value))))

\* Every batch so far was followed by a snapshot without errors.
AllBatchesYielded ==
    /\ Len(snapshots) >= Len(batches)
    /\ \A k \in 1..Len(batches) : ~snapshots[k].errors.present

\* The body has ended after batches that all yielded, the last payload
\* processed having hasNext = true, or with no part processed at all.
PrematureEnd ==
    /\ iter \in {"failed", "done"}
    /\ chunksRead = Len(streamBody)
    /\ AllBatchesYielded
    /\ \/ batches = <<>>
       \/ JsonParse(Last(Last(batches))).hasNext

(***************************************************************************)
(* C18: if the body of a multipart stream ends while the last processed    *)
(* payload had hasNext = true, or before any complete part was processed,  *)
(* the stream yields one final snapshot with the data merged so far (no    *)
(* data when nothing was merged), an errors block with networkStatusCode = *)
(* the response status and the message "<label>: Response stream           *)
(* terminated unexpectedly", and hasNext = false.                          *)
(***************************************************************************)
C18_PrematureEndReported ==
    PrematureEnd =>
        /\ Len(snapshots) = Len(batches) + 1
        /\ Last(snapshots).data = DataIfValid(MergedData(Flat(batches)))
        /\ batches = <<>> => ~Last(snapshots).data.has
        /\ Last(snapshots).errors =
               [present |-> TRUE,
                networkStatusCode |-> Some(Last(settled).response.status),
                message |-> <<CLIENT, ": ", "Response stream terminated unexpectedly">>,
                graphQLErrors |-> <<>>]
        /\ ~Last(snapshots).hasNext

\* The body ended after one part with hasNext = true: the snapshot of the
\* part, and then the final snapshot with its data and the message.
C18_Witness ==
    /\ PrematureEnd
    /\ Len(batches) = 1 /\ Len(snapshots) = 2
    /\ snapshots[1].hasNext /\ snapshots[1].data.has
    /\ snapshots[2].data = snapshots[1].data
    /\ snapshots[2].errors.present

\* The last part of the body has hasNext = false.
LastPartEndsStream ==
    /\ BodyPayloads # <<>>
    /\ Last(BodyPayloads).valid
    /\ ~Last(BodyPayloads).hasNext

(***************************************************************************)
(* C19, as claimed: for any multipart stream whose last chunk has hasNext  *)
(* = false, the iterator ends without yielding an error snapshot.          *)
(***************************************************************************)
C19_Original ==
    (iter = "done" /\ LastPartEndsStream) =>
        \A k \in 1..Len(snapshots) : ~snapshots[k].errors.present

(***************************************************************************)
(* C19, amended: for any multipart stream whose parts are all JSON, carry  *)
(* no non-empty errors array, whose first part carries data and whose last *)
(* part has hasNext = false, the iterator ends without yielding an error   *)
(* snapshot, after a last snapshot with hasNext = false.                   *)
(***************************************************************************)
C19_CleanStreamEndsWithoutError ==
    (iter = "done" /\ LastPartEndsStream /\ ErrorFreeBody /\ BodyPayloads[1].data.has) =>
        /\ snapshots # <<>>
        /\ Len(snapshots) = Len(batches)
        /\ \A k \in 1..Len(snapshots) : ~snapshots[k].errors.present
        /\ ~Last(snapshots).hasNext

\* A stream of two parts in two batches has ended: two snapshots, none with
\* errors, the last with hasNext = false.
C19_Witness ==
    /\ iter = "done"
    /\ Len(batches) = 2 /\ Len(snapshots) = 2
    /\ ~snapshots[1].errors.present /\ snapshots[1].hasNext
    /\ ~snapshots[2].errors.present /\ ~snapshots[2].hasNext

\* The errors of the payloads of a batch, in the order of the payloads.
RECURSIVE ErrorsInOrder(_)
ErrorsInOrder(payloads) ==
    IF payloads = <<>> THEN <<>>
    ELSE (IF Head(payloads).errors.has THEN Head(payloads).errors.val ELSE <<>>)
             \o ErrorsInOrder(Tail(payloads))

(***************************************************************************)
(* C20: when a payload of a batch has a non-empty errors array, the stream *)
(* fails on that batch: no normal snapshot is yielded for it, and the      *)
(* final snapshot carries graphQLErrors = the non-empty errors arrays of   *)
(* the batch, concatenated in payload order, networkStatusCode = status,   *)
(* hasNext = false, and the data merged so far, that of every payload of   *)
(* the failing batch included; payloads whose errors array is empty do not *)
(* cause a failure.                                                        *)
(***************************************************************************)
C20_ErrorsFailTheBatch ==
    \A k \in 1..Len(batches) :
        LET payloads == Map(batches[k], JsonParse)
            merged == MergedData(Flat(SubSeq(batches, 1, k)))
        IN  (\A i \in 1..Len(payloads) : payloads[i].valid) =>
                IF ErrorsInOrder(payloads) # <<>>
                THEN /\ k = Len(batches) /\ Len(snapshots) = k
                     /\ iter \in {"failed", "done"}
                     /\ snapshots[k].errors =
                            [present |-> TRUE,
                             networkStatusCode |-> Some(Last(settled).response.status),
                             message |-> <<CLIENT, ": ">> \o GQL_API_ERROR,
                             graphQLErrors |-> ErrorsInOrder(payloads)]
                     /\ ~snapshots[k].hasNext
                     /\ snapshots[k].data = DataIfValid(merged)
                ELSE /\ snapshots[k].errors.graphQLErrors = <<>>
                     /\ DOMAIN merged # {} => ~snapshots[k].errors.present

\* A batch of two payloads with errors, the first with data: the snapshot
\* has the errors of both, in order, and the data.
C20_Witness ==
    /\ iter = "failed"
    /\ Len(batches) = 1 /\ Len(batches[1]) = 2
    /\ Len(snapshots) = 1
    /\ snapshots[1].errors.graphQLErrors = <<"error1", "error2", "error3">>
    /\ snapshots[1].data.has

(***************************************************************************)
(* C21: if, after merging a batch that carries no errors, the combined     *)
(* data is still empty, the stream fails with the 'did not return a data   *)
(* object or any errors' message: the only snapshot for that batch is an   *)
(* error snapshot with no data, networkStatusCode = the response status    *)
(* and hasNext = false, whatever extensions and hasNext the batch carried. *)
(***************************************************************************)
C21_NoDataFailsTheBatch ==
    \A k \in 1..Len(batches) :
        LET payloads == Map(batches[k], JsonParse)
            merged == MergedData(Flat(SubSeq(batches, 1, k)))
        IN  (/\ \A i \in 1..Len(payloads) : payloads[i].valid
             /\ ErrorsInOrder(payloads) = <<>>
             /\ DOMAIN merged = {}) =>
                /\ k = Len(batches) /\ Len(snapshots) = k
                /\ iter \in {"failed", "done"}
                /\ snapshots[k].errors =
                       [present |-> TRUE,
                        networkStatusCode |-> Some(Last(settled).response.status),
                        message |-> <<CLIENT, ": ">> \o NO_DATA_OR_ERRORS_ERROR,
                        graphQLErrors |-> <<>>]
                /\ ~snapshots[k].data.has
                /\ ~snapshots[k].hasNext

\* The stream of the one part {extensions, hasNext: false} has ended after
\* its error snapshot.
C21_Witness ==
    /\ iter = "done"
    /\ Len(batches) = 1 /\ Len(batches[1]) = 1
    /\ JsonParse(batches[1][1]) = StreamPayloads["empty"]
    /\ Len(snapshots) = 1
    /\ snapshots[1].errors.present
    /\ snapshots[1].errors.message = <<CLIENT, ": ">> \o NO_DATA_OR_ERRORS_ERROR
    /\ ~snapshots[1].data.has

(***************************************************************************)
(* C22: if a part body of a batch is not valid JSON, the stream fails on   *)
(* that batch: nothing of the batch, its well-formed parts included, is    *)
(* merged into the combined data, and the final snapshot carries the       *)
(* message "<label>: Error in parsing multipart response - <msg>",         *)
(* networkStatusCode = the response status, hasNext = false and only the   *)
(* data merged from the earlier batches.                                   *)
(***************************************************************************)
C22_ParseFailureFailsTheBatch ==
    \A k \in 1..Len(batches) :
        LET payloads == Map(batches[k], JsonParse)
            earlier == MergedData(Flat(SubSeq(batches, 1, k - 1)))
        IN  (\E i \in 1..Len(payloads) : ~payloads[i].valid) =>
                /\ k = Len(batches) /\ Len(snapshots) = k
                /\ iter \in {"failed", "done"}
                /\ combinedData = earlier
                /\ snapshots[k].errors =
                       [present |-> TRUE,
                        networkStatusCode |-> Some(Last(settled).response.status),
                        message |-> <<CLIENT, ": ">> \o ParseFailureMessage,
                        graphQLErrors |-> <<>>]
                /\ snapshots[k].data = DataIfValid(earlier)
                /\ ~snapshots[k].hasNext

\* A batch of a part with data and a part that is not JSON: the error
\* snapshot has no data.
C22_Witness ==
    /\ iter = "failed"
    /\ Len(batches) = 1 /\ Len(batches[1]) = 2
    /\ JsonParse(batches[1][1]).valid /\ JsonParse(batches[1][1]).data.has
    /\ ~JsonParse(batches[1][2]).valid
    /\ Len(snapshots) = 1
    /\ snapshots[1].errors.message = <<CLIENT, ": ">> \o ParseFailureMessage
    /\ ~snapshots[1].data.has

\* The stream has yielded a snapshot with an errors block.
ErrorSnapshotYielded == snapshots # <<>> /\ Last(snapshots).errors.present

(***************************************************************************)
(* C23: a stream yields at most one snapshot with an errors block; that    *)
(* snapshot has hasNext = false and is the last value the iterator yields: *)
(* after it the iterator ends, and reads and processes no further chunk of *)
(* the body.                                                               *)
(***************************************************************************)
C23_ErrorSnapshotIsFinal ==
    /\ [](\A k \in 1..Len(snapshots) :
              snapshots[k].errors.present =>
                  /\ k = Len(snapshots)
                  /\ ~snapshots[k].hasNext
                  /\ iter \in {"failed", "done"})
    /\ [][ErrorSnapshotYielded =>
              /\ iter' = "done"
              /\ snapshots' = snapshots
              /\ chunksRead' = chunksRead
              /\ batches' = batches
              /\ combinedData' = combinedData]_vars

\* The iterator has ended after a normal snapshot and an error snapshot,
\* with a chunk of the body left unread.
C23_Witness ==
    /\ iter = "done"
    /\ Len(snapshots) = 2
    /\ ~snapshots[1].errors.present
    /\ snapshots[2].errors.present
    /\ chunksRead < Len(streamBody)

\* The key paths of an object tree: the paths of its leaves and of the
\* objects that hold them.
KeyPaths(tree) == UNION {{SubSeq(p, 1, n) : n \in 1..Len(p)} : p \in DOMAIN tree}

\* A part of the batch just processed carries a scalar at path q.
ScalarArrivesAt(q) ==
    /\ Len(batches') = Len(batches) + 1
    /\ \E i \in 1..Len(Last(batches')) :
          LET data == PayloadData(JsonParse(Last(batches')[i]))
          IN  q \in DOMAIN data /\ data[q] # EmptyLeaf

(***************************************************************************)
(* C24, as claimed: every key path present in the combined data after a    *)
(* batch is still present after the next batch.                            *)
(***************************************************************************)
C24_Original == [][KeyPaths(combinedData) \subseteq KeyPaths(combinedData')]_vars

(***************************************************************************)
(* C24, amended: every key path present in the combined data after a batch *)
(* is still present after the next batch, except the paths below a path at *)
(* which a part of the next batch carries a scalar: the scalar replaces    *)
(* the object that was there, and its keys with it.  The path of the       *)
(* scalar itself stays.                                                    *)
(***************************************************************************)
C24_KeysLostOnlyUnderScalars ==
    [][\A p \in KeyPaths(combinedData) \ KeyPaths(combinedData') :
           \E n \in 1..(Len(p) - 1) :
               /\ SubSeq(p, 1, n) \in KeyPaths(combinedData')
               /\ ScalarArrivesAt(SubSeq(p, 1, n))]_vars

\* Two batches have been merged: the key paths after the first are all
\* there after the second, with more.
C24_Witness ==
    /\ Len(batches) = 2 /\ Len(snapshots) = 2
    /\ snapshots[1].data.has
    /\ KeyPaths(snapshots[1].data.val) \subseteq KeyPaths(combinedData)
    /\ KeyPaths(snapshots[1].data.val) # KeyPaths(combinedData)

\* The parts of the batches up to the one snapshot k was yielded for: batch
\* k, or the last batch for the snapshot that follows the end of the body.
PartsUpTo(k) ==
    Flat(SubSeq(batches, 1, IF k <= Len(batches) THEN k ELSE Len(batches)))

AllJson(parts) == \A i \in 1..Len(parts) : JsonParse(parts[i]).valid

(***************************************************************************)
(* C25, as claimed: snapshots are yielded in arrival order and each        *)
(* reflects exactly what has arrived: the data of the k-th snapshot is the *)
(* deep merge, in arrival order, of the effective data (data at its path,  *)
(* or data, or {}) of all parts of batches 1..k.  A part that is not JSON  *)
(* has no data to merge.                                                   *)
(***************************************************************************)
C25_Original ==
    /\ Len(snapshots) \in {Len(batches), Len(batches) + 1}
    /\ \A k \in 1..Len(snapshots) :
          snapshots[k].data = DataIfValid(MergedData(PartsUpTo(k)))

(***************************************************************************)
(* C25, amended: snapshots are yielded in arrival order; when the parts of *)
(* batches 1..k are all JSON, the data of the k-th snapshot is the deep    *)
(* merge, in arrival order, of the effective data (data at its path, or    *)
(* data, or {}) of all parts of batches 1..k, and a snapshot just yielded  *)
(* holds the data of exactly the parts whose trailing boundary has been    *)
(* read, never that of a part still in the buffer.  The snapshot of a      *)
(* batch with a part that is not JSON has the data of the earlier batches  *)
(* only.                                                                   *)
(***************************************************************************)
C25_SnapshotsFollowArrival ==
    /\ Len(snapshots) \in {Len(batches), Len(batches) + 1}
    /\ \A k \in 1..Len(snapshots) :
          AllJson(PartsUpTo(k)) =>
              snapshots[k].data = DataIfValid(MergedData(PartsUpTo(k)))
    /\ \A k \in 1..Len(batches) :
          ~AllJson(batches[k]) =>
              snapshots[k].data = DataIfValid(MergedData(PartsUpTo(k - 1)))
    /\ (iter = "yielded" /\ AllJson(CompleteParts(Received))) =>
          /\ Len(snapshots) = Len(batches)
          /\ Last(snapshots).data = DataIfValid(MergedData(CompleteParts(Received)))

\* The snapshot of the first part was yielded while the whole text of the
\* second part was in the buffer, its trailing boundary not yet read.
C25_Witness ==
    /\ iter = "yielded"
    /\ Len(snapshots) = 1
    /\ IndexOf(buffer, <<"{", "last", "}">>) > -1
    /\ snapshots[1].data = DataIfValid(<<"shop", "id">> :> <<"1">>)

\* The extensions of the last of these payloads that carries extensions
\* (not null, not {}), or undefined.
RECURSIVE MostRecentExtensions(_)
MostRecentExtensions(payloads) ==
    IF payloads = <<>> THEN "undefined"
    ELSE IF Truthy(KeyValueIfValid(Last(payloads).extensions))
    THEN Last(payloads).extensions
    ELSE MostRecentExtensions(SubSeq(payloads, 1, Len(payloads) - 1))

(***************************************************************************)
(* C26: the extensions a snapshot reports are the most recent non-null     *)
(* extensions seen so far in the stream: when several payloads of a batch  *)
(* carry extensions the last of them is adopted, when a batch carries none *)
(* the value of the earlier batches is retained, and a stream in which no  *)
(* payload carries extensions reports no extensions.                       *)
(***************************************************************************)
C26_Original ==
    \A k \in 1..Len(snapshots) :
        AllJson(PartsUpTo(k)) =>
            snapshots[k].extensions =
                MostRecentExtensions(Map(PartsUpTo(k), JsonParse))

\* No batch holds two payloads with extensions.
OneExtensionsPerBatch ==
    \A k \in 1..Len(batches) :
        Len(SelectSeq(batches[k],
                      LAMBDA part : Truthy(KeyValueIfValid(JsonParse(part).extensions)))) <= 1

\* The iteration of the stream has ended: by the end of the iterator, by its
\* final error snapshot, or by the consumer's return().
IterationEnded == iter \in {"failed", "done", "returned"}

(***************************************************************************)
(* C27: for a pull-reader body, once reading of the body has begun, the    *)
(* reader is cancelled on every way the iteration of the stream can end:   *)
(* normal completion, a failure that produces the final error snapshot,    *)
(* and the consumer stopping after a snapshot.  The reader is acquired     *)
(* exactly while the iteration is under way, and once cancelled it stays   *)
(* cancelled and reads nothing more.                                       *)
(***************************************************************************)
C27_ReaderCancelledOnEveryEnd ==
    /\ [](/\ IterationEnded => reader = "cancelled"
          /\ iter \in {"reading", "yielded"} <=> reader = "acquired"
          /\ iter = "ready" <=> reader = "none")
    /\ [][reader = "cancelled" =>
              reader' = "cancelled" /\ chunksRead' = chunksRead]_vars

\* The consumer stopped after a normal snapshot with the body not read to
\* its end, and the reader is cancelled.
C27_Witness ==
    /\ iter = "returned"
    /\ snapshots # <<>> /\ ~Last(snapshots).errors.present
    /\ chunksRead < Len(streamBody)
    /\ reader = "cancelled"

\* The snapshots the multipart iterator yields for these chunks when they
\* are the chunks of a body of this shape and the consumer reads the stream
\* to its end.
RECURSIVE StreamRunAs(_, _, _, _, _, _)
StreamRunAs(body, chunks, buf, acc, yielded, status) ==
    IF chunks = <<>>
    THEN IF acc.streamHasNext
         THEN Append(yielded, ErrorSnapshot(acc, status, Failure(TerminatedMessage, <<>>)))
         ELSE yielded
    ELSE LET read == ReadStreamChunk(buf, DecodeChunk(body, Head(chunks)), Boundary)
             step == ProcessBatch(acc, read.chunkBodies)
         IN  IF Len(read.chunkBodies) = 0
             THEN StreamRunAs(body, Tail(chunks), read.buffer, acc, yielded, status)
             ELSE IF step.failure.failed
             THEN Append(yielded, ErrorSnapshot(step.acc, status, step.failure))
             ELSE StreamRunAs(body, Tail(chunks), read.buffer, step.acc,
                              Append(yielded, StreamSnapshot(step.acc)), status)

\* The snapshots of the same chunks delivered by a body of the other shape.
OtherShapeRun ==
    StreamRunAs(CHOOSE body \in BodyShapes : body # result.iterator.response.body,
                streamBody, <<>>, NewAccumulator, <<>>,
                result.iterator.response.status)

(***************************************************************************)
(* C28: the two body shapes are interchangeable: for the same sequence of  *)
(* chunks, a response whose body is a pull-reader and a response whose     *)
(* body is a push async sequence yield identical sequences of snapshots,   *)
(* error snapshots included.                                               *)
(***************************************************************************)
C28_Original ==
    /\ Len(snapshots) <= Len(OtherShapeRun)
    /\ snapshots = SubSeq(OtherShapeRun, 1, Len(snapshots))
    /\ iter = "done" => snapshots = OtherShapeRun

\* No chunk begins with the bytes EF BB BF.
NoChunkBeginsWithMark ==
    \A i \in 1..Len(streamBody) : streamBody[i][1] # ByteOrderMark

(***************************************************************************)
(* C29: merger idempotence: for every combined result D reachable as the   *)
(* combined data of a stream, deep-merging D with itself,                  *)
(* buildCombinedDataObject([D, D]), yields a value equal to D.             *)
(***************************************************************************)
C29_MergerIdempotent ==
    buildCombinedDataObject(<<combinedData, combinedData>>) = combinedData

\* Two payloads have been merged: an array of one object under shop, and a
\* scalar at shop.name.
C29_Witness ==
    /\ lift.merges = 2
    /\ DOMAIN combinedData = {<<"shop", "[0]", "id">>, <<"shop", "name">>}

\* What an object tree holds at a path: the tree below it, the scalar, or
\* {}.
ReadAt(tree, path) ==
    IF path \in DOMAIN tree /\ tree[path] = EmptyLeaf THEN EmptyObject
    ELSE [q \in {SubSeq(p, Len(path) + 1, Len(p)) :
                    p \in {p \in DOMAIN tree : IsPrefix(path, p)}} |->
             tree[path \o q]]

RetriableUntilExhausted ==
    /\ clientOptions.logger /\ pc = "settled"
    /\ Len(settled) > 0 /\ Len(settled) = Budget + 1 /\ AllRetriableStatus

Declares(d) == result.iterator.response.contentType = DeclaredType(d)

\* The texts of the parts of a body, but for the last when the body is not
\* closed.
DelimitedParts(parts, closed) ==
    [i \in 1..(IF closed THEN Len(parts) ELSE Len(parts) - 1) |->
        Utf8(JsonBytes(parts[i]))]

C32_WitnessNoBoundary ==
    /\ Declares([form |-> "none", key |-> "boundary=", token |-> "graphql",
                 charset |-> FALSE])
    /\ Flat(streamBody) =
          SeparatedBody(<<"-", "-", "-">>, <<"first", "last">>, FALSE)
    /\ chunksRead = Len(streamBody)
    /\ Flat(batches) = << <<"{", "first", "}">> >>

\* What C33 says the part body of a segment is: the text that follows the
\* first header separator, or the whole segment when it has none, trimmed.
ClaimedPartBody(segment) ==
    LET at == IndexOf(segment, HEADER_SEPARATOR)
    IN  Trim(IF at = -1 THEN segment
             ELSE SubSeq(segment, at + Len(HEADER_SEPARATOR) + 1, Len(segment)))

\* And the part bodies of a body of these segments: one for each segment that
\* is not blank.
ClaimedPartBodies(segments) ==
    Map(SelectSeq(Map(segments, SegmentText), LAMBDA t : Trim(Utf8(t)) # <<>>),
        LAMBDA t : ClaimedPartBody(Utf8(t)))

\* C33 as the specification states it: the part bodies handed to the merger
\* are those of the segments of the body that are not blank, each without its
\* header and with every character of its JSON text, the segments with no
\* header separator too.
C33_Original ==
    \A segments \in SegmentLists, closed \in BOOLEAN :
        Flat(streamBody) = SegmentedBody(segments, closed) =>
            /\ IsPrefix(Flat(batches), ClaimedPartBodies(segments))
            /\ chunksRead = Len(streamBody) =>
                  Flat(batches) = ClaimedPartBodies(segments)

\* The closing delimiter of the body, the boundary and "--", has been
\* received.
SentinelReceived == IndexOf(Received, Boundary \o <<"-", "-">>) > -1

\* C34 as the specification states it: once the terminating sentinel has
\* been consumed, the chunks that arrive afterwards, whatever they hold,
\* bring no further snapshot.
C34_Original ==
    [][(SentinelReceived /\ chunksRead' = chunksRead + 1) =>
           snapshots' = snapshots]_vars

\* The hasNext field of the last payload of a batch.
LastHasNext(batch) == JsonParse(Last(batch)).hasNext

\* The body has ended and the iterator has yielded the snapshot of a stream
\* that ended too early.
EndedTooEarly ==
    /\ snapshots # <<>>
    /\ Last(snapshots).errors.message = formatErrorMessage(TerminatedMessage)

(***************************************************************************)
(* C35: the hasNext value of every non-error snapshot is the hasNext field *)
(* of the last payload of the batch that produced it, whatever the hasNext *)
(* fields of the earlier payloads of that batch; the stream-level hasNext  *)
(* tested at the end of the body is that same value from the last          *)
(* processed batch, and is true when no batch was processed.               *)
(***************************************************************************)
C35_HasNextOfLastPayload ==
    /\ \A k \in 1..Len(snapshots) :
          ~snapshots[k].errors.present =>
              /\ k <= Len(batches)
              /\ snapshots[k].hasNext = LastHasNext(batches[k])
    /\ batches = <<>> => streamHasNext
    /\ (batches # <<>> /\ Len(snapshots) = Len(batches)
           /\ ~Last(snapshots).errors.present) =>
          streamHasNext = LastHasNext(Last(batches))
    /\ (chunksRead = Len(streamBody) /\ iter \in {"failed", "done"}) =>
          (EndedTooEarly <=>
              (/\ Len(snapshots) = Len(batches) + 1
               /\ streamHasNext
               /\ batches # <<>> => LastHasNext(Last(batches))))

\* A batch of two payloads, the first with hasNext = true and the second
\* with hasNext = false, gave a snapshot with hasNext = false, and the stream
\* ended without an error.
C35_Witness ==
    /\ iter = "done"
    /\ Len(batches) = 1 /\ Len(batches[1]) = 2 /\ Len(snapshots) = 1
    /\ JsonParse(batches[1][1]).hasNext /\ ~JsonParse(batches[1][2]).hasNext
    /\ ~snapshots[1].errors.present /\ ~snapshots[1].hasNext

\* request() has settled, its @defer guard passed.
RequestSettledPastGuard ==
    /\ pc = "settled" /\ call.entry = "request"
    /\ ~GuardRejects("request", call.operation)

\* C36 as the specification states it: once the @defer guard has passed,
\* request() never rejects; an invalid retries value, a transport failure
\* after the retries, a status that is not ok, an unexpected content type and
\* a JSON body that fails to parse are each delivered as a resolved result
\* with an errors block.
C36_Original ==
    RequestSettledPastGuard =>
        /\ result.kind = "resolved"
        /\ (\/ settled = <<>>
            \/ Last(settled).threw
            \/ ~Last(settled).response.ok
            \/ ~Includes(ContentTypeOf(Last(settled).response), CONTENT_TYPES.json)
            \/ ~Last(settled).response.payload.valid) =>
              result.value.errors.present

\* requestStream() has settled, its @defer guard passed.
StreamSettledPastGuard ==
    /\ pc = "settled" /\ call.entry = "requestStream"
    /\ ~GuardRejects("requestStream", call.operation)

\* The call failed before a multipart body could be read: on the way to the
\* response, on its status, on its content type, on its JSON body or on the
\* shape of its multipart body.
FailedBeforeTheBody ==
    \/ settled = <<>>
    \/ Last(settled).threw
    \/ ~Last(settled).response.ok
    \/ LET response == Last(settled).response
       IN  IF Includes(ContentTypeOf(response), CONTENT_TYPES.json)
           THEN ~response.payload.valid
           ELSE \/ ~Includes(ContentTypeOf(response), CONTENT_TYPES.multipart)
                \/ response.body = "none"

\* C37 as the specification states it: once the @defer guard has passed, the
\* iterator returned by requestStream() never throws to the consumer; every
\* failure is a yielded snapshot with an errors block and hasNext = false.
C37_Original ==
    StreamSettledPastGuard =>
        /\ result.kind = "resolved"
        /\ iter # "threw"
        /\ (FailedBeforeTheBody /\ iter \in {"yielded", "done"}) =>
              /\ Len(snapshots) = 1
              /\ snapshots[1].errors.present
              /\ ~snapshots[1].hasNext

\* A chunk arrives that completes no part: the text received holds the same
\* parts between its boundaries after it as before.
ChunkCompletesNoPart ==
    /\ chunksRead < Len(streamBody)
    /\ chunksRead' = chunksRead + 1
    /\ CompleteParts(DecodedUpTo(chunksRead + 1)) = CompleteParts(Received)

\* C38 as the specification states it: a chunk that only brings the opening
\* boundary, the terminating sentinel or whitespace between boundaries, and
\* so completes no part, produces no batch and no snapshot.
C38_Original ==
    [][ChunkCompletesNoPart => (batches' = batches /\ snapshots' = snapshots)]_vars

\* The part of C38 every body and chunking satisfies: no batch is empty.
C38_NoEmptyBatch == \A k \in 1..Len(batches) : batches[k] # <<>>

\* What is left of a stream that has not completed: three steps for each
\* chunk not yet read, and the steps the iterator can still take where it is.
Completed == iter \in {"done", "returned"}

StepsLeft ==
    IF Completed THEN 0
    ELSE 3 * (Len(streamBody) - chunksRead)
             + (CASE iter \in {"ready", "yielded"} -> 3
                  [] iter = "reading" -> 2
                  [] OTHER -> 1)

\* The consumer's next() can be served, or the body can deliver its next
\* chunk or its end: the guards of MultipartNext, ChunkArrives and BodyEnds.
CanStep ==
    \/ /\ pc = "settled" /\ result.iterator.kind = "multipart"
       /\ iter \in {"ready", "yielded", "failed"}
    \/ iter = "reading" /\ chunksRead < Len(streamBody)
    \/ iter = "reading" /\ chunksRead = Len(streamBody)

(***************************************************************************)
(* C39: every stream over a finite body terminates: for a body that        *)
(* delivers n chunks and then ends, the iterator yields at most n + 1      *)
(* snapshots (at most one per chunk plus at most one final error snapshot) *)
(* and then completes, for every content of the chunks.  Completion is     *)
(* stated on finite runs: every step of the stream lowers the number of    *)
(* steps left, which is never negative, and as long as the iterator has    *)
(* not completed, the consumer's next(), the next chunk or the end of the  *)
(* body can take place.                                                    *)
(***************************************************************************)
C39_FiniteBodyTerminates ==
    /\ [](/\ chunksRead <= Len(streamBody)
          /\ Len(snapshots) <= chunksRead + 1
          /\ Len(snapshots) = chunksRead + 1 => Last(snapshots).errors.present
          /\ StepsLeft >= 0
          /\ Completed => StepsLeft = 0
          /\ ~Completed => CanStep)
    /\ [][StepsLeft' < StepsLeft]_vars

\* A body of two chunks was read to its end: each chunk gave a snapshot, the
\* end of the body a third, with an errors block, and the iterator is done.
C39_Witness ==
    /\ iter = "done"
    /\ Len(streamBody) = 2 /\ chunksRead = 2
    /\ Len(snapshots) = 3
    /\ ~snapshots[2].errors.present /\ snapshots[3].errors.present

\* The snapshots stream s yields when it is consumed alone, to its end.
AloneRun(s) ==
    StreamRun(streams[s].body, <<>>, NewAccumulator, <<>>,
              result.iterator.response.status)

\* Stream s has yielded what it yields alone, as far as it has come.
YieldsAsAlone(s) ==
    /\ IsPrefix(streams[s].snapshots, AloneRun(s))
    /\ streams[s].iter = "done" => streams[s].snapshots = AloneRun(s)

\* C40: two streams of two requestStream() calls, consumed in any
\* interleaving, each yield the snapshots they yield when consumed alone:
\* the data, extensions and hasNext of one are not affected by the parts of
\* the other.
C40_StreamsIsolated == \A s \in DOMAIN streams : YieldsAsAlone(s)

\* Both streams are midway, each after a snapshot and before the end of its
\* body, and their data differ.
C40_Witness ==
    /\ DOMAIN streams = StreamIds
    /\ \A s \in StreamIds :
          /\ streams[s].iter = "yielded"
          /\ streams[s].chunksRead < Len(streams[s].body)
    /\ streams[1].snapshots # streams[2].snapshots
    /\ streams[1].combinedData # streams[2].combinedData

====
